---- MODULE Spec2Model ----
(***************************************************************************)
(* Model of blackduck/jenkins/detect-scan/update-manual-manifest.py:       *)
(* UpdateComponents reconciles the "manually added" component list of a    *)
(* Black Duck project-version (the remote curated list) with the component *)
(* entries of the black-duck-manifest files.                               *)
(*                                                                         *)
(* Text (version names, component names) is a sequence of one-character    *)
(* strings, so that the regular expressions and prefix tests of the code   *)
(* are computed character by character.  Python's True / False / None are  *)
(* the strings "True", "False", "None".                                    *)
(***************************************************************************)
EXTENDS Integers, Sequences, FiniteSets, TLC

\* ------------------------------------------------------------------ bounds
\* records in the remote curated list when the first run starts
MaxBom == 2
\* component entries met while walking the manifests
MaxEntries == 2
\* runs of the program one after the other against the same remote list
MaxRuns == 2
\* nested add_manifests calls the interpreter allows before it raises RecursionError
MaxDepth == 2

\* ------------------------------------------------------------------ text
None == "None"
PyTrue == "True"
PyFalse == "False"
PyBool(b) == IF b THEN PyTrue ELSE PyFalse

Digits == {"0", "1", "2", "3", "4", "5", "6", "7", "8", "9"}
DigitsDots == Digits \cup {"."}

Range(s) == {s[i] : i \in 1..Len(s)}

StartsWith(s, p) == Len(s) >= Len(p) /\ SubSeq(s, 1, Len(p)) = p

Contains(s, p) ==
    \E i \in 1..(Len(s) + 1) :
        i + Len(p) - 1 <= Len(s) /\ SubSeq(s, i, i + Len(p) - 1) = p

UpperCase == <<"A", "B", "C", "D", "E", "F", "G", "H", "I", "J", "K", "L", "M",
               "N", "O", "P", "Q", "R", "S", "T", "U", "V", "W", "X", "Y", "Z">>
LowerCase == <<"a", "b", "c", "d", "e", "f", "g", "h", "i", "j", "k", "l", "m",
               "n", "o", "p", "q", "r", "s", "t", "u", "v", "w", "x", "y", "z">>

\* str.lower()
Lower(s) ==
    [i \in 1..Len(s) |->
        IF \E k \in 1..26 : UpperCase[k] = s[i]
        THEN LowerCase[CHOOSE k \in 1..26 : UpperCase[k] = s[i]]
        ELSE s[i]]

\* f"{p:>0w}": right-align in a field of width w, filled with "0"
RECURSIVE PadLeft(_, _)
PadLeft(p, w) == IF Len(p) >= w THEN p ELSE PadLeft(<<"0">> \o p, w)

\* str(int(p)) for a string of digits: leading zeros dropped
RECURSIVE IntStr(_)
IntStr(p) == IF Len(p) > 1 /\ p[1] = "0" THEN IntStr(Tail(p)) ELSE p

\* a set of text values listed in some order (an iteration order of the set)
Orderings(S) ==
    {q \in [1..Cardinality(S) -> S] : \A x \in S : \E i \in 1..Cardinality(S) : q[i] = x}

\* ------------------------------------------------------------------ canonicalize_version
\* v_re with a slip: after a leading "v" anything is accepted
v_re_match_AnyRest(version) ==
    /\ Len(version) >= 1
    /\ \/ \A i \in 1..Len(version) : version[i] \in DigitsDots
       \/ version[1] = "v" /\ Len(version) >= 2

\* v_re = ^(v?)([.0-9]+)$
v_re_match(version) ==
    /\ Len(version) >= 1
    /\ \/ \A i \in 1..Len(version) : version[i] \in DigitsDots
       \/ /\ version[1] = "v"
          /\ Len(version) >= 2
          /\ \A i \in 2..Len(version) : version[i] \in DigitsDots

\* group 2 of a v_re match
v_re_group2(version) == IF version[1] = "v" THEN Tail(version) ELSE version

DotsOf(version) == {i \in 1..Len(version) : version[i] = "."}
FirstDot(version) == CHOOSE i \in DotsOf(version) : \A j \in DotsOf(version) : i <= j
LastDot(version) == CHOOSE i \in DotsOf(version) : \A j \in DotsOf(version) : i >= j

\* groups 1..3 of date_re = ^([0-9]{4})\.([0-9]{1,2})\.([0-9]{1,2})$
date_re_groups(version) ==
    << SubSeq(version, 1, FirstDot(version) - 1),
       SubSeq(version, FirstDot(version) + 1, LastDot(version) - 1),
       SubSeq(version, LastDot(version) + 1, Len(version)) >>

date_re_match(version) ==
    /\ Cardinality(DotsOf(version)) = 2
    /\ LET g == date_re_groups(version)
       IN  /\ \A k \in 1..3 : Range(g[k]) \subseteq Digits
           /\ Len(g[1]) = 4
           /\ Len(g[2]) \in {1, 2}
           /\ Len(g[3]) \in {1, 2}

Erlang == <<"e", "r", "l", "a", "n", "g">>
GoLang == <<"g", "o", " ", "p", "r", "o", "g", "r", "a", "m", "m", "i", "n", "g",
            " ", "l", "a", "n", "g", "u", "a", "g", "e">>
Certifi == <<"c", "e", "r", "t", "i", "f", "i">>
OtpPrefix == <<"O", "T", "P", "-">>
GoPrefix == <<"g", "o">>

\* the version after the leading "v" is stripped (line 567-571)
StripV(version) == IF v_re_match(version) THEN v_re_group2(version) ELSE version

\* CanonVer with a slip: the erlang heuristic applies to a name that has "erlang"
\* anywhere in it
CanonVer_ErlangAnywhere(comp_name, version) ==
    LET ver == StripV(version)
    IN  IF Contains(comp_name, Erlang)
        THEN IF StartsWith(ver, OtpPrefix) THEN SubSeq(ver, 5, Len(ver)) ELSE ver
        ELSE IF StartsWith(comp_name, GoLang)
        THEN IF StartsWith(ver, GoPrefix) THEN SubSeq(ver, 3, Len(ver)) ELSE ver
        ELSE IF Contains(comp_name, Certifi) /\ date_re_match(ver)
        THEN LET g == date_re_groups(ver)
             IN  PadLeft(g[1], 4) \o <<".">> \o PadLeft(g[2], 2) \o <<".">> \o PadLeft(g[3], 2)
        ELSE ver

\* canon_ver of canonicalize_version (lines 575-591)
CanonVer(comp_name, version) ==
    LET ver == StripV(version)
    IN  IF StartsWith(comp_name, Erlang)
        THEN IF StartsWith(ver, OtpPrefix) THEN SubSeq(ver, 5, Len(ver)) ELSE ver
        ELSE IF StartsWith(comp_name, GoLang)
        THEN IF StartsWith(ver, GoPrefix) THEN SubSeq(ver, 3, Len(ver)) ELSE ver
        ELSE IF Contains(comp_name, Certifi) /\ date_re_match(ver)
        THEN LET g == date_re_groups(ver)
             IN  PadLeft(g[1], 4) \o <<".">> \o PadLeft(g[2], 2) \o <<".">> \o PadLeft(g[3], 2)
        ELSE ver

\* AltVer with a slip: the alternate of a date is the date as it was written
AltVer_AsWritten(comp_name, version) == StripV(version)

\* alt_ver of canonicalize_version (lines 576-592)
AltVer(comp_name, version) ==
    LET ver == StripV(version)
    IN  IF ~StartsWith(comp_name, Erlang) /\ ~StartsWith(comp_name, GoLang)
           /\ Contains(comp_name, Certifi) /\ date_re_match(ver)
        THEN LET g == date_re_groups(ver)
             IN  IntStr(g[1]) \o <<".">> \o IntStr(g[2]) \o <<".">> \o IntStr(g[3])
        ELSE ver

\* the alternate spellings canonicalize_version saves when save_alts is True
\* (lines 605-618), all under the key (comp_id, canon_ver)
SavedAlts(comp_name, version) ==
    LET canon == CanonVer(comp_name, version)
        cands == {AltVer(comp_name, version), StripV(version)}
    IN  (IF v_re_match(version) THEN {<<"v">> \o alt : alt \in cands} ELSE {})
        \cup {alt \in cands : canon # alt}

\* the value canonicalize_version returns
canonicalize_version(comp_name, version) == CanonVer(comp_name, version)

\* bd_alt_canonical_versions after canonicalize_version(..., save_alts=True):
\* a function from keys <<comp_id, canon_ver>> to sets of spellings
AltKey(comp_id, version) == <<comp_id, version>>

AddAlts(alts, comp_id, comp_name, version) ==
    LET key == AltKey(comp_id, CanonVer(comp_name, version))
        new == SavedAlts(comp_name, version)
    IN  IF new = {} THEN alts
        ELSE [k \in DOMAIN alts \cup {key} |->
                IF k = key
                THEN (IF key \in DOMAIN alts THEN alts[key] ELSE {}) \cup new
                ELSE alts[k]]

\* ------------------------------------------------------------------ dicts
\* A Python dict: its keys in insertion order and its values
EmptyDict == [keys |-> <<>>, val |-> [k \in {} |-> {}]]

HasKey(d, k) == k \in DOMAIN d.val

DictSet(d, k, v) ==
    [keys |-> IF HasKey(d, k) THEN d.keys ELSE Append(d.keys, k),
     val  |-> [x \in DOMAIN d.val \cup {k} |-> IF x = k THEN v ELSE d.val[x]]]

\* d.get(k, default) of a mapping given as a function
Get(f, k, default) == IF k \in DOMAIN f THEN f[k] ELSE default

\* ------------------------------------------------------------------ the remote service
\* Component ids are opaque (UUIDs in the service): atoms, never taken apart.
Components == {"c1", "c2"}

V1 == <<"1">>
Vv1 == <<"v", "1">>
V2 == <<"2">>

\* componentName the service reports for a component
KbName(c) ==
    IF c \in {"c1", "c3"} THEN <<"Z", "l", "i", "b">>
    ELSE IF c = "c4" THEN <<"E", "r", "l", "a", "n", "g", "/", "O", "T", "P">>
    ELSE <<"e", "x", "p", "a", "t">>

Reviewed == "REVIEWED"
NotReviewed == "NOT_REVIEWED"

\* version names and review statuses the curated list may hold for a component
\* when the first run starts
BomVersionNames(c) == IF c = "c1" THEN {V1, Vv1, V2} ELSE {V1}
BomReviewStatuses(c) == IF c = "c1" THEN {Reviewed, NotReviewed} ELSE {NotReviewed}

\* the records of the curated list: component-versions of the project-version
BomRecordsOf(c) ==
    {[component |-> c, componentName |-> KbName(c),
      componentVersionName |-> w, reviewStatus |-> r] :
        w \in BomVersionNames(c), r \in BomReviewStatuses(c)}

BomRecords == UNION {BomRecordsOf(c) : c \in Components}

\* the link (_meta.href) of a record: one per component-version
Href(rec) == <<rec.component, rec.componentVersionName>>

BomStates ==
    {B \in SUBSET BomRecords :
        /\ Cardinality(B) <= MaxBom
        /\ \A x, y \in B : Href(x) = Href(y) => x = y}

\* one component-version of the Knowledgebase (the catalog): the component id it
\* is listed under, its versionName, and the component id in its link
KbEntry(c, w) == [component |-> c, versionName |-> w, href_component |-> c]

KbFixed == {KbEntry("c1", V2), KbEntry("c2", V1)}
KbStates == {KbFixed \cup X : X \in {{}, {KbEntry("c1", V1)}, {KbEntry("c1", Vv1)}}}

\* the Knowledgebase after the service gave component c1 the new id c3: its
\* versions are still found by a search under c1, their links carry c3
Renumbered(c, w) == [component |-> c, versionName |-> w, href_component |-> "c3"]

KbRenumbered ==
    {{Renumbered("c1", V2), KbEntry("c2", V1)} \cup X :
        X \in {{}, {Renumbered("c1", V1)}, {KbEntry("c1", V1)}}}

\* ------------------------------------------------------------------ the inputs of a run
\* bd_aliases.yaml: a sequence of <<comp_id, comp_data>>; <<>> when the file is absent
AliasFiles == {<<>>}

\* comp_name : comp_data of the "components" sections of the manifests
ManifestName(c) ==
    IF c = "c1" THEN <<"l", "i", "b", "z">>
    ELSE IF c = "c4" THEN Erlang
    ELSE <<"e", "x", "p", "a", "t">>

CompDatas(c) ==
    IF c = "c1"
    THEN {[bd_id |-> c]}
         \cup {[bd_id |-> c, versions |-> <<w>>] : w \in {V1, V2}}
         \cup {[bd_id |-> c, versions |-> <<w>>, license_approved |-> la] :
                 w \in {V1, V2}, la \in {PyTrue, PyFalse}}
    ELSE {[bd_id |-> c, versions |-> <<V1>>],
          [bd_id |-> c, versions |-> <<V1>>, license_approved |-> PyTrue]}

ManifestEntries ==
    UNION {{[comp_name |-> ManifestName(c), comp_data |-> d] : d \in CompDatas(c)} :
            c \in Components}

ManifestInputs == UNION {[1..n -> ManifestEntries] : n \in 0..MaxEntries}

\* ------------------------------------------------------------------ ManifestWalker
\* The manifest files under the source root: for each project the files named
\* <project>-black-duck-manifest.yaml in os.walk order, each file the sequence of
\* its top-level <<key, value>> items.  What the walk meets is a sequence of
\* events: the component entries handed to add_component, ended by a stop event
\* when the walk does not return.
DefaultProject == "p"

StructuralKeys == {"include-projects", "meta", "components"}

Stopped(events) == events # <<>> /\ "stop" \in DOMAIN events[Len(events)]

\* a loop over s that ends with the first step that does not return
RECURSIVE UntilStopped(_, _)
UntilStopped(Op(_), s) ==
    IF s = <<>> THEN <<>>
    ELSE LET first == Op(Head(s))
         IN  IF Stopped(first) THEN first ELSE first \o UntilStopped(Op, Tail(s))

RECURSIVE add_manifests(_, _, _)

\* add_manifest_item with a slip: a key that is not recognized is passed over
add_manifest_item_Ignore(tree, item, depth) ==
    LET key == item[1]
        value == item[2]
    IN  CASE key = "include-projects" ->
                UntilStopped(LAMBDA other_project : add_manifests(tree, other_project, depth + 1),
                             value)
          [] key = "components" ->
                SelectSeq(value, LAMBDA e : "list" \notin DOMAIN e.comp_data)
          [] OTHER -> <<>>

\* one top-level item of a manifest (the match statement of add_manifest); a
\* comp_data that is an empty list is the record [list |-> <<>>]
add_manifest_item(tree, item, depth) ==
    LET key == item[1]
        value == item[2]
    IN  CASE key = "include-projects" ->
                UntilStopped(LAMBDA other_project : add_manifests(tree, other_project, depth + 1),
                             value)
          [] key = "meta" -> <<>>
          [] key = "components" ->
                SelectSeq(value, LAMBDA e : "list" \notin DOMAIN e.comp_data)
          [] OTHER -> <<[stop |-> "exit5", key |-> key]>>

add_manifest(tree, manifest_file, depth) ==
    UntilStopped(LAMBDA item : add_manifest_item(tree, item, depth), manifest_file)

\* add_manifests(for_project), called at depth 0 for the project of the run
add_manifests(tree, project, depth) ==
    IF depth > MaxDepth THEN <<[stop |-> "RecursionError"]>>
    ELSE UntilStopped(LAMBDA manifest_file : add_manifest(tree, manifest_file, depth),
                      Get(tree, project, <<>>))

\* the component entries written in the manifests of the walks
WalkEntries ==
    {e \in ManifestEntries :
        /\ "versions" \in DOMAIN e.comp_data
        /\ Get(e.comp_data, "license_approved", PyTrue) = PyTrue}

EmptyList == [comp_name |-> <<"n", "o", "n", "e">>, comp_data |-> [list |-> <<>>]]

\* the trees of manifest files of the walks, around two component entries
WalkTree(shape, e1, e2) ==
    CASE shape = "plain" ->
            [p |-> << << <<"meta", <<>> >>, <<"components", <<EmptyList, e1, e2>> >> >> >>]
      [] shape = "include" ->
            [p |-> << << <<"include-projects", <<"q", "r">> >>, <<"components", <<e1>> >> >> >>,
             q |-> << << <<"components", <<e2>> >> >> >>]
      [] shape = "unknown_first" ->
            [p |-> << << <<"licenses", <<>> >>, <<"components", <<e1, e2>> >> >> >>]
      [] shape = "unknown_last" ->
            [p |-> << << <<"components", <<e1>> >> >>,
                      << <<"components", <<e2>> >>, <<"licenses", <<>> >> >> >>]
      [] shape = "unknown_included" ->
            [p |-> << << <<"components", <<e1>> >>, <<"include-projects", <<"q">> >> >>,
                      << <<"components", <<e2>> >> >> >>,
             q |-> << << <<"meta", <<>> >>, <<"licenses", <<>> >> >> >>]
      [] shape = "unknown_not_included" ->
            [p |-> << << <<"components", <<e1, e2>> >> >> >>,
             q |-> << << <<"licenses", <<>> >> >> >>]
      [] shape = "cycle" ->
            [p |-> << << <<"components", <<e1>> >>, <<"include-projects", <<"q">> >> >> >>,
             q |-> << << <<"components", <<e2>> >>, <<"include-projects", <<"p">> >> >> >>]

WalkShapes == {"plain", "include", "unknown_first", "unknown_last", "unknown_included",
               "unknown_not_included", "cycle"}

WalkTrees == {WalkTree(shape, e1, e2) : shape \in WalkShapes, e1 \in WalkEntries, e2 \in WalkEntries}

\* ------------------------------------------------------------------ runs with bd_aliases.yaml
\* Component c4 is Erlang/OTP; c5 is an id it had before.  Its versions are
\* spelled with or without "OTP-".
Otp25 == OtpPrefix \o <<"2", "5">>
Otp26 == OtpPrefix \o <<"2", "6">>
Bare25 == <<"2", "5">>
Bare26 == <<"2", "6">>

\* bd_aliases.yaml: absent, or one entry for c4
AliasDatas ==
    {[fallback_versions |-> fb] : fb \in {[w \in {Otp26} |-> Otp25]}}
    \cup {[bd_name |-> n, fallback_versions |-> fb, bd_id_aliases |-> ids] :
            n \in {<<"E", "r", "l", "a", "n", "g", "/", "O", "T", "P">>, <<"e", "r", "l", "a", "n", "g", "/", "o", "t", "p">>},
            fb \in {[w \in {Otp26} |-> Otp25], [w \in {Bare26} |-> Bare25]},
            ids \in {{}, {"c5"}}}

AliasFilesOtp == {<<>>} \cup {<< <<"c4", d>> >> : d \in AliasDatas}

AliasBoms ==
    {{}} \cup {{[component |-> "c4", componentName |-> KbName("c4"),
                 componentVersionName |-> w, reviewStatus |-> r]} :
                w \in {Otp25, Bare26, Otp26}, r \in {Reviewed, NotReviewed}}

AliasKbs ==
    {{KbEntry("c4", Bare25)}, {KbEntry("c4", Otp25)}, {KbEntry("c4", Bare25), KbEntry("c4", Bare26)},
     {KbEntry("c4", Bare26)}, {KbEntry("c4", Otp26)}}

AliasEntries ==
    {[comp_name |-> ManifestName("c4"), comp_data |-> d] :
        d \in {[bd_id |-> id, versions |-> <<w>>] : id \in {"c4", "c5"}, w \in {Otp26, Bare25, Bare26}}
              \cup {[bd_id |-> id, versions |-> <<w>>, license_approved |-> PyTrue] :
                      id \in {"c4", "c5"}, w \in {Otp26, Bare25, Bare26}}}

AliasInputs == UNION {[1..n -> AliasEntries] : n \in 0..1}

\* no tree: the entries of the run are given as they come
NoFiles == [none |-> <<>>]

\* ------------------------------------------------------------------ calls of one function
\* no function is called on its own: the program runs
NoArgs == [none |-> <<>>]

\* component names and version strings canonicalize_version is called with
CanonNames ==
    {<<"z", "l", "i", "b">>, Erlang, Erlang \o <<"/", "o", "t", "p">>, <<"x">> \o Erlang, <<"E", "r", "l", "a", "n", "g", "/", "O", "T", "P">>,
     GoLang, Certifi, <<"p", "y", "t", "h", "o", "n", "-">> \o Certifi, <<"C", "e", "r", "t", "i", "f", "i">>}

CanonPrefixes == {<<>>, <<"v">>, OtpPrefix, GoPrefix}

CanonBodies ==
    {<<"1">>, <<"2", "5", ".", "0">>, <<"1", "a">>, <<".">>,
     <<"2", "0", "2", "3", ".", "5", ".", "7">>, <<"2", "0", "2", "3", ".", "0", "5", ".", "0", "7">>,
     <<"2", "0", "2", "3", ".", "1", "2", ".", "2", "5">>, <<"0", "0", "0", "1", ".", "1", ".", "1">>}

CanonVersions == {p1 \o p2 \o b : p1 \in CanonPrefixes, p2 \in CanonPrefixes, b \in CanonBodies}

CanonArgs ==
    [comp_name : CanonNames, comp_id : {"c1"}, version : CanonVersions, save_alts : BOOLEAN]

\* ------------------------------------------------------------------ state
VARIABLES
    bom,            \* the remote curated list: a set of records
    kb,             \* the Knowledgebase
    aliasfile,      \* bd_aliases.yaml
    entries,        \* the component entries of the manifests, in walk order
    run,            \* number of the current run (process)
    dryrun,         \* ManifestWalker.dryrun
    pc,             \* where the run is: start, manifests, perform, done, fatal
    outcome,        \* how the run ended: "" while running
    bd_comp_id_aliases,
    bd_comp_version_fallbacks,
    bd_alt_canonical_versions,
    bom_components, \* the records read at start, version names canonicalized
    bom_comp_map,
    manifest,
    next_entry,     \* the next entry of entries to hand to add_component
    todo,           \* what is left of the diff
    actions_taken,
    trace,          \* the calls perform() has made so far in this run
    requests,       \* the mutating requests sent so far in this run
    bom_at_start,   \* the curated list when this run started
    prev,           \* how the previous run went; run = 0 when there was none
    files,          \* the manifest files under the source root, by project
    args,           \* the arguments of a function called on its own, if one is
    returned,       \* what the calls of it have returned so far, in order
    lookups,        \* the Knowledgebase searches and index reads of this run, in order
    src_dirs,       \* PruneSourceDirs.src_dirs: the directory to prune of each component
    disk,           \* the directories that exist under the source root
    disk_at_start   \* the directories that existed when the program started

envvars == <<kb, aliasfile, entries, files, args, returned, src_dirs, disk, disk_at_start>>
runvars == <<bd_comp_id_aliases, bd_comp_version_fallbacks, bd_alt_canonical_versions,
             bom_components, bom_comp_map, manifest, next_entry, todo, actions_taken,
             trace, requests, lookups>>
vars == <<bom, envvars, run, dryrun, pc, outcome, runvars, bom_at_start, prev>>

\* ------------------------------------------------------------------ __init__
\* the bd-name of an entry of bd_aliases.yaml that gives none
UnknownName == <<"<", "u", "n", "k", "n", "o", "w", "n", " ", "c", "o", "m", "p", "o", "n", "e", "n", "t", " ", "n", "a", "m", "e", ">">>

\* _load_bd_aliases: the reverse map from alias ids to the canonical id
RECURSIVE LoadIdAliases(_, _)
LoadIdAliases(file, acc) ==
    IF file = <<>> THEN acc
    ELSE LET comp_id == Head(file)[1]
             ids == Get(Head(file)[2], "bd_id_aliases", {})
         IN  LoadIdAliases(Tail(file),
                 [a \in DOMAIN acc \cup ids |-> IF a \in ids THEN comp_id ELSE acc[a]])

\* _load_bd_aliases: the map from <<comp_id, canonical version>> to the fallback
\* version; the key is canonicalized with the bd-name as written in the file
RECURSIVE LoadFallbacks(_, _)
LoadFallbacks(file, acc) ==
    IF file = <<>> THEN acc
    ELSE LET comp_id == Head(file)[1]
             comp_data == Head(file)[2]
             fb == Get(comp_data, "fallback_versions", [k \in {} |-> <<>>])
             comp_name == Get(comp_data, "bd_name", UnknownName)
             keyOf(w) == AltKey(comp_id, canonicalize_version(comp_name, w))
             new == {keyOf(w) : w \in DOMAIN fb}
         IN  LoadFallbacks(Tail(file),
                 [k \in DOMAIN acc \cup new |->
                     IF k \in new THEN fb[CHOOSE w \in DOMAIN fb : keyOf(w) = k]
                     ELSE acc[k]])

\* Canonicalized with a slip: the version name of the held record is left as the
\* service spelled it
Canonicalized_KeepName(item) ==
    [component |-> item.component,
     componentName |-> item.componentName,
     componentVersionName |-> item.componentVersionName,
     reviewStatus |-> item.reviewStatus,
     href |-> Href(item)]

\* one record of bom_components after the loop of _load_manual_bom_components:
\* componentVersionName is overwritten with its canonical form, the link is kept
Canonicalized(item) ==
    [component |-> item.component,
     componentName |-> item.componentName,
     componentVersionName |->
         canonicalize_version(Lower(item.componentName), item.componentVersionName),
     reviewStatus |-> item.reviewStatus,
     href |-> Href(item)]

\* LoadBomCompMap with a slip: license-approved is assigned, not or-ed, so the
\* record read last decides
RECURSIVE LoadBomCompMap_LastWins(_, _)
LoadBomCompMap_LastWins(items, map) ==
    IF items = <<>> THEN map
    ELSE LET comp == Head(items)
             comp_id == comp.component
             comp_name == Lower(comp.componentName)
             comp_version_name == canonicalize_version(comp_name, comp.componentVersionName)
             reviewed == (comp.reviewStatus = Reviewed)
             old == IF HasKey(map, comp_id) THEN map.val[comp_id]
                    ELSE [versions |-> {}, license_approved |-> PyFalse]
             new == [versions |-> old.versions \cup {comp_version_name},
                     license_approved |-> PyBool(reviewed),
                     bd_name |-> comp_name]
         IN  LoadBomCompMap_LastWins(Tail(items), DictSet(map, comp_id, new))

\* the loop of _load_manual_bom_components over the records the service returned
RECURSIVE LoadBomCompMap(_, _)
LoadBomCompMap(items, map) ==
    IF items = <<>> THEN map
    ELSE LET comp == Head(items)
             comp_id == comp.component
             comp_name == Lower(comp.componentName)
             comp_version_name == canonicalize_version(comp_name, comp.componentVersionName)
             reviewed == (comp.reviewStatus = Reviewed)
             old == IF HasKey(map, comp_id) THEN map.val[comp_id]
                    ELSE [versions |-> {}, license_approved |-> PyFalse]
             new == [versions |-> old.versions \cup {comp_version_name},
                     license_approved |-> PyBool(old.license_approved = PyTrue \/ reviewed),
                     bd_name |-> comp_name]
         IN  LoadBomCompMap(Tail(items), DictSet(map, comp_id, new))

\* ------------------------------------------------------------------ Knowledgebase lookups
\* re.sub(r'[+]', '_', version)
SafeVersion(version) == [i \in 1..Len(version) |-> IF version[i] = "+" THEN "_" ELSE version[i]]

\* the versionName search of the service: "_" stands for any one character
SearchMatches(q, name) ==
    /\ Len(q) = Len(name)
    /\ \A i \in 1..Len(q) : q[i] = "_" \/ q[i] = name[i]

\* FindComponentVersion with a slip: whatever the search returns is taken
FindComponentVersion_AnyResult(catalog, comp_id, version) ==
    {e \in catalog : e.component = comp_id /\ SearchMatches(SafeVersion(version), e.versionName)}

\* _find_component_version: the entries it may return; {} when it returns None
FindComponentVersion(catalog, comp_id, version) ==
    LET versions == {e \in catalog :
                        e.component = comp_id /\ SearchMatches(SafeVersion(version), e.versionName)}
    IN  {ver_entry \in versions : ver_entry.versionName = version}

\* what a lookup leaves behind: a GET sent to the Knowledgebase by
\* _find_component_version (line 473), or a read of the index of alternates
\* (line 720)
Searched(comp_id, version, hit) ==
    [op |-> "search", comp_id |-> comp_id, version |-> version, hit |-> hit]

AltsRead(comp_id, version, hit) ==
    [op |-> "alts", comp_id |-> comp_id, version |-> version, hit |-> hit]

\* the loop of find_canonical_component_version over the alternates, taken in
\* the given order: it stops at the first that is found
RECURSIVE AltLoop(_, _, _, _)
AltLoop(catalog, comp_id, order, log) ==
    IF order = <<>> THEN [found |-> {}, log |-> log]
    ELSE LET alt_ver == Head(order)
             hit == FindComponentVersion(catalog, comp_id, alt_ver)
         IN  IF hit # {}
             THEN [found |-> hit, log |-> Append(log, Searched(comp_id, alt_ver, TRUE))]
             ELSE AltLoop(catalog, comp_id, Tail(order),
                          Append(log, Searched(comp_id, alt_ver, FALSE)))

\* FindOutcomes with a slip: the alternates are tried before the canonical version
FindOutcomes_AltsFirst(catalog, alts, comp_id, version) ==
    LET exact == FindComponentVersion(catalog, comp_id, version)
        key == AltKey(comp_id, version)
        last(r) == IF r.found # {} THEN r
                   ELSE [found |-> exact,
                         log |-> Append(r.log, Searched(comp_id, version, exact # {}))]
    IN  IF key \notin DOMAIN alts
        THEN {[found |-> exact,
               log |-> <<AltsRead(comp_id, version, FALSE), Searched(comp_id, version, exact # {})>>]}
        ELSE {last(AltLoop(catalog, comp_id, order, <<AltsRead(comp_id, version, TRUE)>>)) :
                order \in Orderings(alts[key])}

\* find_canonical_component_version: the ways it may go, each with the entries
\* it may return ({} when None) and the lookups it made.  The alternates are a
\* Python set: they may come in any order.
FindOutcomes(catalog, alts, comp_id, version) ==
    LET exact == FindComponentVersion(catalog, comp_id, version)
        key == AltKey(comp_id, version)
        first == <<Searched(comp_id, version, exact # {})>>
    IN  IF exact # {} THEN {[found |-> exact, log |-> first]}
        ELSE IF key \notin DOMAIN alts
        THEN {[found |-> {}, log |-> Append(first, AltsRead(comp_id, version, FALSE))]}
        ELSE {AltLoop(catalog, comp_id, order, Append(first, AltsRead(comp_id, version, TRUE))) :
                order \in Orderings(alts[key])}

\* find_canonical_component_version: the entries it may return; {} when None
FindCanonicalComponentVersion(catalog, alts, comp_id, version) ==
    UNION {o.found : o \in FindOutcomes(catalog, alts, comp_id, version)}

\* ------------------------------------------------------------------ add_component
\* FallbackVersionIfNecessary with a slip: the Knowledgebase is asked even when
\* the curated list has the canonical version
FallbackVersionIfNecessary_NoBomTest(catalog, fallbacks, bommap, alts, comp_name, comp_id, version) ==
    LET key == AltKey(comp_id, version)
        same(log) == [version |-> version, alts |-> alts, fatal |-> FALSE, log |-> log]
    IN  IF key \notin DOMAIN fallbacks THEN {same(<<>>)}
        ELSE LET fallback_version == fallbacks[key]
                 canon_fallback_ver == canonicalize_version(comp_name, fallback_version)
                 alts2 == AddAlts(alts, comp_id, comp_name, fallback_version)
             IN  UNION {IF o.found # {} THEN {same(o.log)}
                        ELSE {[version |-> canon_fallback_ver, alts |-> alts2,
                               fatal |-> o2.found = {}, log |-> o.log \o o2.log] :
                                 o2 \in FindOutcomes(catalog, alts2, comp_id, canon_fallback_ver)} :
                          o \in FindOutcomes(catalog, alts, comp_id, version)}

\* FallbackVersionIfNecessary with a slip: the curated list is asked for the
\* fallback string instead of the canonical version
FallbackVersionIfNecessary_BomHasFallback(catalog, fallbacks, bommap, alts, comp_name, comp_id, version) ==
    LET key == AltKey(comp_id, version)
        same(log) == [version |-> version, alts |-> alts, fatal |-> FALSE, log |-> log]
    IN  IF key \notin DOMAIN fallbacks THEN {same(<<>>)}
        ELSE IF HasKey(bommap, comp_id) /\ fallbacks[key] \in bommap.val[comp_id].versions
        THEN {same(<<>>)}
        ELSE LET fallback_version == fallbacks[key]
                 canon_fallback_ver == canonicalize_version(comp_name, fallback_version)
                 alts2 == AddAlts(alts, comp_id, comp_name, fallback_version)
             IN  UNION {IF o.found # {} THEN {same(o.log)}
                        ELSE {[version |-> canon_fallback_ver, alts |-> alts2,
                               fatal |-> o2.found = {}, log |-> o.log \o o2.log] :
                                 o2 \in FindOutcomes(catalog, alts2, comp_id, canon_fallback_ver)} :
                          o \in FindOutcomes(catalog, alts, comp_id, version)}

\* FallbackVersionIfNecessary with a slip: a version found in the Knowledgebase
\* is returned in the spelling it was found in
FallbackVersionIfNecessary_FoundSpelling(catalog, fallbacks, bommap, alts, comp_name, comp_id, version) ==
    LET key == AltKey(comp_id, version)
        same(log) == [version |-> version, alts |-> alts, fatal |-> FALSE, log |-> log]
    IN  IF key \notin DOMAIN fallbacks THEN {same(<<>>)}
        ELSE IF HasKey(bommap, comp_id) /\ version \in bommap.val[comp_id].versions
        THEN {same(<<>>)}
        ELSE LET fallback_version == fallbacks[key]
                 canon_fallback_ver == canonicalize_version(comp_name, fallback_version)
                 alts2 == AddAlts(alts, comp_id, comp_name, fallback_version)
             IN  UNION {IF o.found # {}
                        THEN {[version |-> e.versionName, alts |-> alts, fatal |-> FALSE,
                               log |-> o.log] : e \in o.found}
                        ELSE {[version |-> canon_fallback_ver, alts |-> alts2,
                               fatal |-> o2.found = {}, log |-> o.log \o o2.log] :
                                 o2 \in FindOutcomes(catalog, alts2, comp_id, canon_fallback_ver)} :
                          o \in FindOutcomes(catalog, alts, comp_id, version)}

\* FallbackVersionIfNecessary with a slip: the fallback string is returned as
\* bd_aliases.yaml spells it
FallbackVersionIfNecessary_RawFallback(catalog, fallbacks, bommap, alts, comp_name, comp_id, version) ==
    LET key == AltKey(comp_id, version)
        same(log) == [version |-> version, alts |-> alts, fatal |-> FALSE, log |-> log]
    IN  IF key \notin DOMAIN fallbacks THEN {same(<<>>)}
        ELSE IF HasKey(bommap, comp_id) /\ version \in bommap.val[comp_id].versions
        THEN {same(<<>>)}
        ELSE LET fallback_version == fallbacks[key]
                 canon_fallback_ver == canonicalize_version(comp_name, fallback_version)
                 alts2 == AddAlts(alts, comp_id, comp_name, fallback_version)
             IN  UNION {IF o.found # {} THEN {same(o.log)}
                        ELSE {[version |-> fallback_version, alts |-> alts2,
                               fatal |-> o2.found = {}, log |-> o.log \o o2.log] :
                                 o2 \in FindOutcomes(catalog, alts2, comp_id, canon_fallback_ver)} :
                          o \in FindOutcomes(catalog, alts, comp_id, version)}

\* FallbackVersionIfNecessary with a slip: a fallback the Knowledgebase lacks is
\* returned all the same
FallbackVersionIfNecessary_NoExit(catalog, fallbacks, bommap, alts, comp_name, comp_id, version) ==
    LET key == AltKey(comp_id, version)
        same(log) == [version |-> version, alts |-> alts, fatal |-> FALSE, log |-> log]
    IN  IF key \notin DOMAIN fallbacks THEN {same(<<>>)}
        ELSE IF HasKey(bommap, comp_id) /\ version \in bommap.val[comp_id].versions
        THEN {same(<<>>)}
        ELSE LET fallback_version == fallbacks[key]
                 canon_fallback_ver == canonicalize_version(comp_name, fallback_version)
                 alts2 == AddAlts(alts, comp_id, comp_name, fallback_version)
             IN  UNION {IF o.found # {} THEN {same(o.log)}
                        ELSE {[version |-> canon_fallback_ver, alts |-> alts2,
                               fatal |-> FALSE, log |-> o.log \o o2.log] :
                                 o2 \in FindOutcomes(catalog, alts2, comp_id, canon_fallback_ver)} :
                          o \in FindOutcomes(catalog, alts, comp_id, version)}

\* fallback_version_if_necessary: the ways it may go, each
\* [version returned, alts afterwards, fatal, lookups made]
FallbackVersionIfNecessary(catalog, fallbacks, bommap, alts, comp_name, comp_id, version) ==
    LET key == AltKey(comp_id, version)
        same(log) == [version |-> version, alts |-> alts, fatal |-> FALSE, log |-> log]
    IN  IF key \notin DOMAIN fallbacks THEN {same(<<>>)}
        ELSE IF HasKey(bommap, comp_id) /\ version \in bommap.val[comp_id].versions
        THEN {same(<<>>)}
        ELSE LET fallback_version == fallbacks[key]
                 canon_fallback_ver == canonicalize_version(comp_name, fallback_version)
                 alts2 == AddAlts(alts, comp_id, comp_name, fallback_version)
             IN  UNION {IF o.found # {} THEN {same(o.log)}
                        ELSE {[version |-> canon_fallback_ver, alts |-> alts2,
                               fatal |-> o2.found = {}, log |-> o.log \o o2.log] :
                                 o2 \in FindOutcomes(catalog, alts2, comp_id, canon_fallback_ver)} :
                          o \in FindOutcomes(catalog, alts, comp_id, version)}

\* the list comprehension of add_component over comp_data['versions']: the ways
\* it may go, each [versions so far, alts, fatal, lookups made]
RECURSIVE ManifestVersions(_, _, _, _, _, _, _)
ManifestVersions(catalog, fallbacks, bommap, acc, comp_name, comp_id, versions) ==
    IF versions = <<>> \/ acc.fatal THEN {acc}
    ELSE LET v == Head(versions)
             canon == canonicalize_version(comp_name, v)
             alts1 == AddAlts(acc.alts, comp_id, comp_name, v)
         IN  UNION {ManifestVersions(catalog, fallbacks, bommap,
                        [versions |-> acc.versions \cup {r.version}, alts |-> r.alts,
                         fatal |-> r.fatal, log |-> acc.log \o r.log],
                        comp_name, comp_id, Tail(versions)) :
                      r \in FallbackVersionIfNecessary(
                                catalog, fallbacks, bommap, alts1, comp_name, comp_id, canon)}

\* AddToManifest with a slip: the versions of a later entry replace those of an
\* earlier entry for the same component
AddToManifest_ReplaceVersions(mani, comp_id, comp_name, versions, license_approved) ==
    DictSet(mani, comp_id,
        [versions |-> versions,
         bd_name |-> comp_name,
         license_approved |-> license_approved])

\* the manifest after add_component stored the component
AddToManifest(mani, comp_id, comp_name, versions, license_approved) ==
    LET old == IF HasKey(mani, comp_id) THEN mani.val[comp_id].versions ELSE {}
    IN  DictSet(mani, comp_id,
            [versions |-> old \cup versions,
             bd_name |-> comp_name,
             license_approved |-> license_approved])

\* ------------------------------------------------------------------ dictdiffer.diff
RECURSIVE FlatMap(_, _)
FlatMap(Op(_), s) == IF s = <<>> THEN <<>> ELSE Op(Head(s)) \o FlatMap(Op, Tail(s))

\* DiffRecords with a slip: two version sets that differ are replaced as a whole
\* (all of the first removed, all of the second added)
DiffRecords_ReplaceSets(comp_id, first, second) ==
    (IF first.versions # second.versions /\ second.versions # {}
     THEN <<[action |-> "add", target |-> <<comp_id, "versions">>,
             value |-> <<<<0, second.versions>>>>]>>
     ELSE <<>>)
    \o (IF first.versions # second.versions /\ first.versions # {}
        THEN <<[action |-> "remove", target |-> <<comp_id, "versions">>,
                value |-> <<<<0, first.versions>>>>]>>
        ELSE <<>>)
    \o (IF first.license_approved # second.license_approved
        THEN <<[action |-> "change", target |-> <<comp_id, "license_approved">>,
                value |-> <<first.license_approved, second.license_approved>>]>>
        ELSE <<>>)
    \o (IF first.bd_name # second.bd_name
        THEN <<[action |-> "change", target |-> <<comp_id, "bd_name">>,
                value |-> <<first.bd_name, second.bd_name>>]>>
        ELSE <<>>)

\* DiffRecords with a slip: a component whose bd-name differs counts as another
\* component, all its versions removed and added again
DiffRecords_NameIsKey(comp_id, first, second) ==
    LET renamed == first.bd_name # second.bd_name
        addition == IF renamed THEN second.versions ELSE second.versions \ first.versions
        deletion == IF renamed THEN first.versions ELSE first.versions \ second.versions
    IN  (IF addition # {}
         THEN <<[action |-> "add", target |-> <<comp_id, "versions">>,
                 value |-> <<<<0, addition>>>>]>>
         ELSE <<>>)
        \o (IF deletion # {}
            THEN <<[action |-> "remove", target |-> <<comp_id, "versions">>,
                    value |-> <<<<0, deletion>>>>]>>
            ELSE <<>>)
        \o (IF first.license_approved # second.license_approved
            THEN <<[action |-> "change", target |-> <<comp_id, "license_approved">>,
                    value |-> <<first.license_approved, second.license_approved>>]>>
            ELSE <<>>)

\* the diff of the two records of a component found in both dicts.  The keys are
\* visited in the order of the first record: versions, license-approved, bd-name.
\* A pair of sets gives one "add" and one "remove" of whole sets.
DiffRecords(comp_id, first, second) ==
    LET addition == second.versions \ first.versions
        deletion == first.versions \ second.versions
    IN  (IF addition # {}
         THEN <<[action |-> "add", target |-> <<comp_id, "versions">>,
                 value |-> <<<<0, addition>>>>]>>
         ELSE <<>>)
        \o (IF deletion # {}
            THEN <<[action |-> "remove", target |-> <<comp_id, "versions">>,
                    value |-> <<<<0, deletion>>>>]>>
            ELSE <<>>)
        \o (IF first.license_approved # second.license_approved
            THEN <<[action |-> "change", target |-> <<comp_id, "license_approved">>,
                    value |-> <<first.license_approved, second.license_approved>>]>>
            ELSE <<>>)
        \o (IF first.bd_name # second.bd_name
            THEN <<[action |-> "change", target |-> <<comp_id, "bd_name">>,
                    value |-> <<first.bd_name, second.bd_name>>]>>
            ELSE <<>>)

\* Diff with a slip: the keys found in the first dict only are forgotten
Diff_NoDeletion(first, second) ==
    LET intersection == SelectSeq(first.keys, LAMBDA k : HasKey(second, k))
        addition == SelectSeq(second.keys, LAMBDA k : ~HasKey(first, k))
    IN  FlatMap(LAMBDA k : DiffRecords(k, first.val[k], second.val[k]), intersection)
        \o (IF addition # <<>>
            THEN <<[action |-> "add", target |-> <<>>,
                    value |-> [i \in 1..Len(addition) |->
                                  <<addition[i], second.val[addition[i]]>>]]>>
            ELSE <<>>)

\* dictdiffer.diff(first, second) of two dicts of component records: the common
\* keys first, then one "add" of all new keys, then one "remove" of all lost keys
Diff(first, second) ==
    LET intersection == SelectSeq(first.keys, LAMBDA k : HasKey(second, k))
        addition == SelectSeq(second.keys, LAMBDA k : ~HasKey(first, k))
        deletion == SelectSeq(first.keys, LAMBDA k : ~HasKey(second, k))
    IN  FlatMap(LAMBDA k : DiffRecords(k, first.val[k], second.val[k]), intersection)
        \o (IF addition # <<>>
            THEN <<[action |-> "add", target |-> <<>>,
                    value |-> [i \in 1..Len(addition) |->
                                  <<addition[i], second.val[addition[i]]>>]]>>
            ELSE <<>>)
        \o (IF deletion # <<>>
            THEN <<[action |-> "remove", target |-> <<>>,
                    value |-> [i \in 1..Len(deletion) |->
                                  <<deletion[i], first.val[deletion[i]]>>]]>>
            ELSE <<>>)

\* ------------------------------------------------------------------ perform
\* One pending loop of perform(): the calls func_map[action](comp_name, comp_id, v)
\* for the versions v of a set, or one change of license-approved.
VersionLoop(action, comp_name, comp_id, versions) ==
    IF versions = {} THEN <<>>
    ELSE <<[action |-> action, comp_name |-> comp_name, comp_id |-> comp_id,
            versions |-> versions, approved |-> None]>>

\* PerformItem with a slip: a component added as a whole also gets its
\* license-approved set when the manifest states it
PerformItem_LicenseOnAdd(mani, item) ==
    IF item.action \in {"remove", "add"}
    THEN IF item.target = <<>>
         THEN FlatMap(LAMBDA kv :
                        VersionLoop(item.action, kv[2].bd_name, kv[1], kv[2].versions)
                        \o (IF item.action = "add" /\ kv[2].license_approved # None
                            THEN <<[action |-> "change", comp_name |-> <<>>, comp_id |-> kv[1],
                                    versions |-> {}, approved |-> kv[2].license_approved]>>
                            ELSE <<>>),
                      item.value)
         ELSE VersionLoop(item.action, mani.val[item.target[1]].bd_name,
                          item.target[1], item.value[1][2])
    ELSE IF item.target[2] = "license_approved" /\ item.value[2] # None
    THEN <<[action |-> "change", comp_name |-> <<>>, comp_id |-> item.target[1],
            versions |-> {}, approved |-> item.value[2]]>>
    ELSE <<>>

\* PerformItem with a slip: the new value of license-approved is not tested for None
PerformItem_NoNoneTest(mani, item) ==
    IF item.action \in {"remove", "add"}
    THEN IF item.target = <<>>
         THEN FlatMap(LAMBDA kv : VersionLoop(item.action, kv[2].bd_name, kv[1], kv[2].versions),
                      item.value)
         ELSE VersionLoop(item.action, mani.val[item.target[1]].bd_name,
                          item.target[1], item.value[1][2])
    ELSE IF item.target[2] = "license_approved"
    THEN <<[action |-> "change", comp_name |-> <<>>, comp_id |-> item.target[1],
            versions |-> {}, approved |-> item.value[2]]>>
    ELSE <<>>

\* what perform() does with one item of the diff (lines 895-956)
PerformItem(mani, item) ==
    IF item.action \in {"remove", "add"}
    THEN IF item.target = <<>>
         THEN FlatMap(LAMBDA kv : VersionLoop(item.action, kv[2].bd_name, kv[1], kv[2].versions),
                      item.value)
         ELSE VersionLoop(item.action, mani.val[item.target[1]].bd_name,
                          item.target[1], item.value[1][2])
    ELSE IF item.target[2] = "license_approved" /\ item.value[2] # None
    THEN <<[action |-> "change", comp_name |-> <<>>, comp_id |-> item.target[1],
            versions |-> {}, approved |-> item.value[2]]>>
    ELSE <<>>

\* the calls perform() is going to make, loop by loop
Pending(bommap, mani) == FlatMap(LAMBDA item : PerformItem(mani, item), Diff(bommap, mani))

\* one call made by perform()
Call(action, comp_name, comp_id, version, approved) ==
    [action |-> action, comp_name |-> comp_name, comp_id |-> comp_id,
     version |-> version, approved |-> approved]

\* one mutating request sent to the service
Request(method, component, versionName, reviewStatus, searched, ok, op) ==
    [method |-> method, component |-> component, versionName |-> versionName,
     reviewStatus |-> reviewStatus, searched |-> searched, ok |-> ok, op |-> op]

\* the curated list after a successful POST of a Knowledgebase entry
Posted(list, entry) ==
    IF \E rec \in list : Href(rec) = <<entry.href_component, entry.versionName>>
    THEN list
    ELSE list \cup {[component |-> entry.href_component,
                     componentName |-> KbName(entry.href_component),
                     componentVersionName |-> entry.versionName,
                     reviewStatus |-> NotReviewed]}

\* the curated list after a successful DELETE of a record's link
Deleted(list, href) == {rec \in list : Href(rec) # href}

\* the curated list after successful PUTs of the records S with a review status
Updated(list, S, status) ==
    {IF rec \in S THEN [rec EXCEPT !.reviewStatus = status] ELSE rec : rec \in list}

\* ------------------------------------------------------------------ a run
NoPrev == [run |-> 0]

\* the state when the program starts, from given sets of curated lists,
\* Knowledgebases, alias files and manifests
InitFrom(boms, kbs, aliasfiles, inputs) ==
    /\ bom \in boms
    /\ kb \in kbs
    /\ aliasfile \in aliasfiles
    /\ entries \in inputs
    /\ returned = <<>>
    /\ run = 1
    /\ dryrun \in BOOLEAN
    /\ pc = "start"
    /\ outcome = ""
    /\ bd_comp_id_aliases = [k \in {} |-> ""]
    /\ bd_comp_version_fallbacks = [k \in {} |-> <<>>]
    /\ bd_alt_canonical_versions = [k \in {} |-> {}]
    /\ bom_components = <<>>
    /\ bom_comp_map = EmptyDict
    /\ manifest = EmptyDict
    /\ next_entry = 1
    /\ todo = <<>>
    /\ actions_taken = 0
    /\ trace = <<>>
    /\ requests = <<>>
    /\ lookups = <<>>
    /\ bom_at_start = bom
    /\ prev = NoPrev
    /\ src_dirs = EmptyDict
    /\ disk = {}
    /\ disk_at_start = {}

Init == files = NoFiles /\ args = NoArgs /\ InitFrom(BomStates, KbStates, AliasFiles, ManifestInputs)

\* sys.exit(code), or an exception nobody catches
Exit(how) == pc' = "fatal" /\ outcome' = how

\* Construct with a slip: the versions of the curated list are canonicalized
\* with save_alts
Construct_SavesAlts ==
    /\ pc = "start"
    /\ \E items \in Orderings(bom) :
        /\ bom_components' = [i \in 1..Len(items) |-> Canonicalized(items[i])]
        /\ bom_comp_map' = LoadBomCompMap(items, EmptyDict)
        /\ bd_alt_canonical_versions' =
              IF items = <<>> THEN bd_alt_canonical_versions
              ELSE AddAlts(bd_alt_canonical_versions, items[1].component,
                           Lower(items[1].componentName), items[1].componentVersionName)
    /\ bd_comp_id_aliases' = LoadIdAliases(aliasfile, bd_comp_id_aliases)
    /\ bd_comp_version_fallbacks' = LoadFallbacks(aliasfile, bd_comp_version_fallbacks)
    /\ pc' = "manifests"
    /\ UNCHANGED <<bom, envvars, run, dryrun, outcome, manifest,
                   next_entry, todo, actions_taken, trace, requests, lookups, bom_at_start,
                   prev>>

\* UpdateComponents.__init__: load the aliases, then read the curated list, which
\* the service returns in an order of its own
Construct ==
    /\ pc = "start"
    /\ \E items \in Orderings(bom) :
        /\ bom_components' = [i \in 1..Len(items) |-> Canonicalized(items[i])]
        /\ bom_comp_map' = LoadBomCompMap(items, EmptyDict)
    /\ bd_comp_id_aliases' = LoadIdAliases(aliasfile, bd_comp_id_aliases)
    /\ bd_comp_version_fallbacks' = LoadFallbacks(aliasfile, bd_comp_version_fallbacks)
    /\ pc' = "manifests"
    /\ UNCHANGED <<bom, envvars, run, dryrun, outcome, bd_alt_canonical_versions, manifest,
                   next_entry, todo, actions_taken, trace, requests, lookups, bom_at_start,
                   prev>>

\* the lookups of a call, with the method of perform() or of the loading that
\* made the call
During(log, caller) ==
    [i \in 1..Len(log) |->
        [op |-> log[i].op, comp_id |-> log[i].comp_id, version |-> log[i].version,
         hit |-> log[i].hit, during |-> caller]]

\* add_component(comp_name, comp_data) for the next entry of the manifests
AddComponent ==
    /\ pc = "manifests"
    /\ next_entry <= Len(entries)
    /\ "comp_data" \in DOMAIN entries[next_entry]
    /\ LET comp_data == entries[next_entry].comp_data
           versions == Get(comp_data, "versions", <<>>)
           license_approved == Get(comp_data, "license_approved", None)
           comp_name == Lower(Get(comp_data, "bd_name", entries[next_entry].comp_name))
           bd_id == Get(comp_data, "bd_id", None)
           comp_id == Get(bd_comp_id_aliases, bd_id, bd_id)
       IN  \E r \in ManifestVersions(kb, bd_comp_version_fallbacks, bom_comp_map,
                         [versions |-> {}, alts |-> bd_alt_canonical_versions,
                          fatal |-> FALSE, log |-> <<>>],
                         comp_name, comp_id, versions) :
           /\ bd_alt_canonical_versions' = r.alts
           /\ lookups' = lookups \o During(r.log, "add_component")
           /\ IF r.fatal
              THEN Exit("exit2") /\ UNCHANGED <<manifest, next_entry>>
              ELSE /\ manifest' = AddToManifest(manifest, comp_id, comp_name,
                                      r.versions, license_approved)
                   /\ next_entry' = next_entry + 1
                   /\ UNCHANGED <<pc, outcome>>
    /\ UNCHANGED <<bom, envvars, run, dryrun, bd_comp_id_aliases, bd_comp_version_fallbacks,
                   bom_components, bom_comp_map, todo, actions_taken, trace, requests,
                   bom_at_start, prev>>

\* the walk meets a key it does not recognize (sys.exit(5) in add_manifest), or
\* the include-projects nest deeper than the interpreter allows
StopLoading ==
    /\ pc = "manifests"
    /\ next_entry <= Len(entries)
    /\ "stop" \in DOMAIN entries[next_entry]
    /\ Exit(entries[next_entry].stop)
    /\ UNCHANGED <<bom, envvars, run, dryrun, runvars, bom_at_start, prev>>

\* perform() starts: the manifests are all loaded, the diff is computed
StartPerform ==
    /\ pc = "manifests"
    /\ next_entry > Len(entries)
    /\ todo' = Pending(bom_comp_map, manifest)
    /\ pc' = "perform"
    /\ UNCHANGED <<bom, envvars, run, dryrun, outcome, bd_comp_id_aliases,
                   bd_comp_version_fallbacks, bd_alt_canonical_versions, bom_components,
                   bom_comp_map, manifest, next_entry, actions_taken, trace, requests,
                   lookups, bom_at_start, prev>>

\* the diff once the call for `version` of its first loop has returned
Rest(version) ==
    IF Head(todo).versions \ {version} = {}
    THEN Tail(todo)
    ELSE <<[Head(todo) EXCEPT !.versions = @ \ {version}]>> \o Tail(todo)

\* Counted with a slip: a call of a dry run is not counted
Counted_OnlyReal(rest) ==
    /\ todo' = rest
    /\ actions_taken' = (IF dryrun THEN actions_taken ELSE actions_taken + 1)
    /\ UNCHANGED <<pc, outcome>>

\* the call has returned: the next of the loop, actions_taken += 1
Counted(rest) == todo' = rest /\ actions_taken' = actions_taken + 1 /\ UNCHANGED <<pc, outcome>>

permvars == <<envvars, run, dryrun, bd_comp_id_aliases, bd_comp_version_fallbacks,
              bd_alt_canonical_versions, bom_components, bom_comp_map, manifest,
              next_entry, bom_at_start, prev>>

\* add_component_version with switches for three slips: a dry run that returns
\* before the lookup, a miss in the Knowledgebase that does not exit, and a POST
\* whose status is not checked
AddComponentVersionWith(dry_looks_up, miss_exits, status_checked) ==
    /\ pc = "perform" /\ todo # <<>> /\ Head(todo).action = "add"
    /\ \E version \in Head(todo).versions :
        \E o \in FindOutcomes(kb, bd_alt_canonical_versions, Head(todo).comp_id, version) :
        LET comp_id == Head(todo).comp_id
            found == o.found
        IN  /\ trace' = Append(trace, Call("add", Head(todo).comp_name, comp_id, version, None))
            /\ lookups' = (IF dryrun /\ ~dry_looks_up THEN lookups
                           ELSE lookups \o During(o.log, "add_component_version"))
            /\ IF dryrun /\ ~dry_looks_up
               THEN Counted(Rest(version)) /\ UNCHANGED <<bom, requests>>
               ELSE IF found = {}
               THEN IF miss_exits
                    THEN Exit("exit3") /\ UNCHANGED <<bom, requests, todo, actions_taken>>
                    ELSE Counted(Rest(version)) /\ UNCHANGED <<bom, requests>>
               ELSE \E component_version_url \in found :
                    IF dryrun
                    THEN Counted(Rest(version)) /\ UNCHANGED <<bom, requests>>
                    ELSE \E ok \in BOOLEAN :
                         /\ requests' = Append(requests,
                                Request("POST", component_version_url.href_component,
                                        component_version_url.versionName, NotReviewed,
                                        component_version_url.component, ok, Len(trace) + 1))
                         /\ IF ok
                            THEN bom' = Posted(bom, component_version_url)
                                 /\ Counted(Rest(version))
                            ELSE IF status_checked
                            THEN Exit("HTTPError") /\ UNCHANGED <<bom, todo, actions_taken>>
                            ELSE Counted(Rest(version)) /\ UNCHANGED bom
    /\ UNCHANGED permvars

AddComponentVersion_DryNoLookup == AddComponentVersionWith(FALSE, TRUE, TRUE)
AddComponentVersion_MissNoExit == AddComponentVersionWith(TRUE, FALSE, TRUE)
AddComponentVersion_NoRaise == AddComponentVersionWith(TRUE, TRUE, FALSE)

\* add_component_version with a slip: a link that carries another component id
\* than the one asked for ends the run
AddComponentVersion_MismatchExits ==
    /\ pc = "perform" /\ todo # <<>> /\ Head(todo).action = "add"
    /\ \E version \in Head(todo).versions :
        \E o \in FindOutcomes(kb, bd_alt_canonical_versions, Head(todo).comp_id, version) :
        LET comp_id == Head(todo).comp_id
            found == o.found
        IN  /\ trace' = Append(trace, Call("add", Head(todo).comp_name, comp_id, version, None))
            /\ lookups' = lookups \o During(o.log, "add_component_version")
            /\ IF found = {}
               THEN Exit("exit3") /\ UNCHANGED <<bom, requests, todo, actions_taken>>
               ELSE \E component_version_url \in found :
                    IF component_version_url.href_component # comp_id
                    THEN Exit("exit3") /\ UNCHANGED <<bom, requests, todo, actions_taken>>
                    ELSE IF dryrun
                    THEN Counted(Rest(version)) /\ UNCHANGED <<bom, requests>>
                    ELSE \E ok \in BOOLEAN :
                         /\ requests' = Append(requests,
                                Request("POST", component_version_url.href_component,
                                        component_version_url.versionName, NotReviewed,
                                        component_version_url.component, ok, Len(trace) + 1))
                         /\ IF ok
                            THEN bom' = Posted(bom, component_version_url)
                                 /\ Counted(Rest(version))
                            ELSE Exit("HTTPError") /\ UNCHANGED <<bom, todo, actions_taken>>
    /\ UNCHANGED permvars

\* add_component_version(comp_name, comp_id, version), called by perform()
AddComponentVersion ==
    /\ pc = "perform" /\ todo # <<>> /\ Head(todo).action = "add"
    /\ \E version \in Head(todo).versions :
        \E o \in FindOutcomes(kb, bd_alt_canonical_versions, Head(todo).comp_id, version) :
        LET comp_id == Head(todo).comp_id
            found == o.found
        IN  /\ trace' = Append(trace, Call("add", Head(todo).comp_name, comp_id, version, None))
            /\ lookups' = lookups \o During(o.log, "add_component_version")
            /\ IF found = {}
               THEN Exit("exit3") /\ UNCHANGED <<bom, requests, todo, actions_taken>>
               ELSE \E component_version_url \in found :
                    IF dryrun
                    THEN Counted(Rest(version)) /\ UNCHANGED <<bom, requests>>
                    ELSE \E ok \in BOOLEAN :
                         /\ requests' = Append(requests,
                                Request("POST", component_version_url.href_component,
                                        component_version_url.versionName, NotReviewed,
                                        component_version_url.component, ok, Len(trace) + 1))
                         /\ IF ok
                            THEN bom' = Posted(bom, component_version_url)
                                 /\ Counted(Rest(version))
                            ELSE Exit("HTTPError") /\ UNCHANGED <<bom, todo, actions_taken>>
    /\ UNCHANGED permvars

\* remove_component_version with a slip: the DELETE is sent in a dry run too
RemoveComponentVersion_NoDryrun ==
    /\ pc = "perform" /\ todo # <<>> /\ Head(todo).action = "remove"
    /\ \E version \in Head(todo).versions :
        LET comp_id == Head(todo).comp_id
            hits == {i \in 1..Len(bom_components) :
                        /\ bom_components[i].component = comp_id
                        /\ bom_components[i].componentVersionName = version}
        IN  /\ trace' = Append(trace,
                            Call("remove", Head(todo).comp_name, comp_id, version, None))
            /\ IF hits = {}
               THEN Exit("exit1") /\ UNCHANGED <<bom, requests, todo, actions_taken>>
               ELSE LET component == bom_components[CHOOSE i \in hits : \A j \in hits : i <= j]
                    IN  \E ok \in BOOLEAN :
                        /\ requests' = Append(requests,
                               Request("DELETE", component.href[1], component.href[2],
                                       "", "", ok, Len(trace) + 1))
                        /\ IF ok
                           THEN bom' = Deleted(bom, component.href)
                                /\ Counted(Rest(version))
                           ELSE Exit("HTTPError")
                                /\ UNCHANGED <<bom, todo, actions_taken>>
    /\ UNCHANGED <<permvars, lookups>>

\* remove_component_version(comp_name, comp_id, version), called by perform()
RemoveComponentVersion ==
    /\ pc = "perform" /\ todo # <<>> /\ Head(todo).action = "remove"
    /\ \E version \in Head(todo).versions :
        LET comp_id == Head(todo).comp_id
            hits == {i \in 1..Len(bom_components) :
                        /\ bom_components[i].component = comp_id
                        /\ bom_components[i].componentVersionName = version}
        IN  /\ trace' = Append(trace,
                            Call("remove", Head(todo).comp_name, comp_id, version, None))
            /\ IF hits = {}
               THEN Exit("exit1") /\ UNCHANGED <<bom, requests, todo, actions_taken>>
               ELSE LET component == bom_components[CHOOSE i \in hits : \A j \in hits : i <= j]
                    IN  IF dryrun
                        THEN Counted(Rest(version)) /\ UNCHANGED <<bom, requests>>
                        ELSE \E ok \in BOOLEAN :
                             /\ requests' = Append(requests,
                                    Request("DELETE", component.href[1], component.href[2],
                                            "", "", ok, Len(trace) + 1))
                             /\ IF ok
                                THEN bom' = Deleted(bom, component.href)
                                     /\ Counted(Rest(version))
                                ELSE Exit("HTTPError")
                                     /\ UNCHANGED <<bom, todo, actions_taken>>
    /\ UNCHANGED <<permvars, lookups>>

\* change_component_version_license_approved with a slip: the records are taken
\* from the list as it was read when the run started
ChangeComponentVersionLicenseApproved_Stale ==
    /\ pc = "perform" /\ todo # <<>> /\ Head(todo).action = "change"
    /\ LET comp_id == Head(todo).comp_id
           approved == Head(todo).approved
           status == IF approved = PyTrue THEN Reviewed ELSE NotReviewed
           curr_items == {item \in bom_at_start : item.component = comp_id}
       IN  /\ trace' = Append(trace, Call("change", <<>>, comp_id, <<>>, approved))
           /\ IF dryrun
              THEN Counted(Tail(todo)) /\ UNCHANGED <<bom, requests>>
              ELSE \E items \in Orderings(curr_items) : \E n \in 0..Len(items) :
                   /\ LET sent == IF n = Len(items) THEN n ELSE n + 1
                      IN  requests' = requests \o
                              [i \in 1..sent |->
                                  Request("PUT", items[i].component,
                                          items[i].componentVersionName, status, "",
                                          i <= n, Len(trace) + 1)]
                   /\ bom' = Updated(bom, {rec \in bom : \E i \in 1..n : Href(rec) = Href(items[i])},
                                     status)
                   /\ IF n = Len(items)
                      THEN Counted(Tail(todo))
                      ELSE Exit("HTTPError") /\ UNCHANGED <<todo, actions_taken>>
    /\ UNCHANGED <<permvars, lookups>>

\* change_component_version_license_approved with a slip: the loop returns after
\* the first record
ChangeComponentVersionLicenseApproved_FirstRecord ==
    /\ pc = "perform" /\ todo # <<>> /\ Head(todo).action = "change"
    /\ LET comp_id == Head(todo).comp_id
           approved == Head(todo).approved
           status == IF approved = PyTrue THEN Reviewed ELSE NotReviewed
           curr_items == {item \in bom : item.component = comp_id}
       IN  /\ trace' = Append(trace, Call("change", <<>>, comp_id, <<>>, approved))
           /\ IF dryrun
              THEN Counted(Tail(todo)) /\ UNCHANGED <<bom, requests>>
              ELSE \E items \in Orderings(curr_items) :
                   LET m == IF Len(items) = 0 THEN 0 ELSE 1
                   IN  \E n \in 0..m :
                       /\ requests' = requests \o
                              [i \in 1..m |->
                                  Request("PUT", items[i].component,
                                          items[i].componentVersionName, status, "",
                                          i <= n, Len(trace) + 1)]
                       /\ bom' = Updated(bom, {items[i] : i \in 1..n}, status)
                       /\ IF n = m
                          THEN Counted(Tail(todo))
                          ELSE Exit("HTTPError") /\ UNCHANGED <<todo, actions_taken>>
    /\ UNCHANGED <<permvars, lookups>>

\* change_component_version_license_approved(target, approved), called by perform():
\* the curated list is read again and every record of the component is PUT back
\* with the new review status, until a PUT fails
ChangeComponentVersionLicenseApproved ==
    /\ pc = "perform" /\ todo # <<>> /\ Head(todo).action = "change"
    /\ LET comp_id == Head(todo).comp_id
           approved == Head(todo).approved
           status == IF approved = PyTrue THEN Reviewed ELSE NotReviewed
           curr_items == {item \in bom : item.component = comp_id}
       IN  /\ trace' = Append(trace, Call("change", <<>>, comp_id, <<>>, approved))
           /\ IF dryrun
              THEN Counted(Tail(todo)) /\ UNCHANGED <<bom, requests>>
              ELSE \E items \in Orderings(curr_items) : \E n \in 0..Len(items) :
                   \* the first n PUTs succeed; the next one, if any, fails
                   /\ LET sent == IF n = Len(items) THEN n ELSE n + 1
                      IN  requests' = requests \o
                              [i \in 1..sent |->
                                  Request("PUT", items[i].component,
                                          items[i].componentVersionName, status, "",
                                          i <= n, Len(trace) + 1)]
                   /\ bom' = Updated(bom, {items[i] : i \in 1..n}, status)
                   /\ IF n = Len(items)
                      THEN Counted(Tail(todo))
                      ELSE Exit("HTTPError") /\ UNCHANGED <<todo, actions_taken>>
    /\ UNCHANGED <<permvars, lookups>>

\* what perform() logs before it returns
Report(total) ==
    IF total = 0
    THEN [message |-> "Current components match manifest - no updates needed!", count |-> 0]
    ELSE [message |-> "Updated components", count |-> total]

\* perform() returns: the diff is used up, the total is logged
Finish ==
    /\ pc = "perform" /\ todo = <<>>
    /\ pc' = "done"
    /\ outcome' = "ok"
    /\ UNCHANGED <<bom, envvars, run, dryrun, runvars, bom_at_start, prev>>

\* the program is started again, on the same manifests, against the curated list
\* as the previous run left it
NewRun ==
    /\ pc \in {"done", "fatal"}
    /\ run < MaxRuns
    /\ run' = run + 1
    /\ dryrun' \in BOOLEAN
    /\ prev' = [run |-> run, dryrun |-> dryrun, outcome |-> outcome, trace |-> trace,
                actions_taken |-> actions_taken, requests |-> requests,
                bom_at_start |-> bom_at_start]
    /\ pc' = "start"
    /\ outcome' = ""
    /\ bd_comp_id_aliases' = [k \in {} |-> ""]
    /\ bd_comp_version_fallbacks' = [k \in {} |-> <<>>]
    /\ bd_alt_canonical_versions' = [k \in {} |-> {}]
    /\ bom_components' = <<>>
    /\ bom_comp_map' = EmptyDict
    /\ manifest' = EmptyDict
    /\ next_entry' = 1
    /\ todo' = <<>>
    /\ actions_taken' = 0
    /\ trace' = <<>>
    /\ requests' = <<>>
    /\ lookups' = <<>>
    /\ bom_at_start' = bom
    /\ UNCHANGED <<bom, envvars>>

Next ==
    \/ Construct
    \/ AddComponent
    \/ StartPerform
    \/ AddComponentVersion
    \/ RemoveComponentVersion
    \/ ChangeComponentVersionLicenseApproved
    \/ Finish

Spec == Init /\ [][Next]_vars

\* runs one after the other: a dry run first
InitRuns == Init /\ dryrun

NextRuns == Next \/ NewRun

SpecRuns == InitRuns /\ [][NextRuns]_vars

\* runs that walk a tree of manifest files
InitWalk ==
    /\ files \in WalkTrees
    /\ args = NoArgs
    /\ InitFrom({B \in BomStates : Cardinality(B) <= 1},
                {KbFixed \cup {KbEntry("c1", V1)}}, AliasFiles,
                {add_manifests(files, DefaultProject, 0)})

NextWalk == Next \/ StopLoading

SpecWalk == InitWalk /\ [][NextWalk]_vars

\* runs with a bd_aliases.yaml beside the script
InitAlias ==
    files = NoFiles /\ args = NoArgs /\ InitFrom(AliasBoms, AliasKbs, AliasFilesOtp, AliasInputs)

SpecAlias == InitAlias /\ [][Next]_vars

\* canonicalize_version called on its own, and again on what it returned
CanonicalizeVersion ==
    /\ "version" \in DOMAIN args
    /\ returned = <<>>
    /\ returned' = <<canonicalize_version(args.comp_name, args.version)>>
    /\ bd_alt_canonical_versions' =
          (IF args.save_alts
           THEN AddAlts(bd_alt_canonical_versions, args.comp_id, args.comp_name, args.version)
           ELSE bd_alt_canonical_versions)
    /\ UNCHANGED <<bom, src_dirs, disk, disk_at_start, kb, aliasfile, entries, files, args, run, dryrun, pc, outcome,
                   bd_comp_id_aliases, bd_comp_version_fallbacks, bom_components,
                   bom_comp_map, manifest, next_entry, todo, actions_taken, trace, requests,
                   lookups, bom_at_start, prev>>

CanonicalizeAgain ==
    /\ "version" \in DOMAIN args
    /\ Len(returned) = 1
    /\ returned' = Append(returned, canonicalize_version(args.comp_name, returned[1]))
    /\ bd_alt_canonical_versions' =
          (IF args.save_alts
           THEN AddAlts(bd_alt_canonical_versions, args.comp_id, args.comp_name, returned[1])
           ELSE bd_alt_canonical_versions)
    /\ UNCHANGED <<bom, src_dirs, disk, disk_at_start, kb, aliasfile, entries, files, args, run, dryrun, pc, outcome,
                   bd_comp_id_aliases, bd_comp_version_fallbacks, bom_components,
                   bom_comp_map, manifest, next_entry, todo, actions_taken, trace, requests,
                   lookups, bom_at_start, prev>>

InitCanon ==
    /\ files = NoFiles
    /\ args \in CanonArgs
    /\ InitFrom({{}}, {{}}, {<<>>}, {<<>>})

NextCanon == CanonicalizeVersion \/ CanonicalizeAgain

SpecCanon == InitCanon /\ [][NextCanon]_vars

\* runs against a Knowledgebase in which component c1 has been renumbered
InitRenumbered ==
    files = NoFiles /\ args = NoArgs /\ InitFrom(BomStates, KbRenumbered, AliasFiles, ManifestInputs)

SpecRenumbered == InitRenumbered /\ [][Next]_vars

\* ------------------------------------------------------------------ the two inventories
\* the ids, versions and license-approved of the remote (bom_comp_map) and the
\* desired (manifest) inventory of the run
RemoteIds == DOMAIN bom_comp_map.val
DesiredIds == DOMAIN manifest.val
RemoteVersions(c) == IF c \in RemoteIds THEN bom_comp_map.val[c].versions ELSE {}
DesiredVersions(c) == IF c \in DesiredIds THEN manifest.val[c].versions ELSE {}

\* the positions in the trace of the calls of one kind for a component
CallsOf(action, c) ==
    {i \in 1..Len(trace) : trace[i].action = action /\ trace[i].comp_id = c}

\* the <<id, version>> pairs of the calls of one kind
Targets(action) ==
    {<<trace[i].comp_id, trace[i].version>> : i \in {j \in 1..Len(trace) : trace[j].action = action}}

\* the calls perform() would make if the curated list were read again now and
\* diffed against the desired inventory of this run
ReDiff(items) == Pending(LoadBomCompMap(items, EmptyDict), manifest)

\* ------------------------------------------------------------------ C1
\* C1: convergence. When a run that is not a dry run has completed, reading the
\* curated list again and diffing it against the same desired inventory gives no
\* add, no remove and no change of license-approved.
C1_Convergence ==
    (pc = "done" /\ ~dryrun) => \A items \in Orderings(bom) : ReDiff(items) = <<>>

\* ------------------------------------------------------------------ C2
SameInventories ==
    /\ RemoteIds = DesiredIds
    /\ \A c \in RemoteIds :
        /\ bom_comp_map.val[c].versions = manifest.val[c].versions
        /\ bom_comp_map.val[c].license_approved = manifest.val[c].license_approved

\* C2: when the two inventories have the same ids, the same versions per id and
\* the same license-approved per id, perform() makes no call and sends no request,
\* whatever the bd-name of the components on either side.
C2_EqualInventoriesNoOp ==
    (pc \in {"perform", "done", "fatal"} /\ next_entry > Len(entries) /\ SameInventories)
        => (todo = <<>> /\ trace = <<>> /\ requests = <<>> /\ pc # "fatal")

C2_Witness ==
    /\ pc = "done"
    /\ SameInventories
    /\ \E c \in RemoteIds : bom_comp_map.val[c].bd_name # manifest.val[c].bd_name
    /\ trace = <<>>

\* ------------------------------------------------------------------ C3
AllIds == RemoteIds \cup DesiredIds
AllVersions == UNION {RemoteVersions(c) \cup DesiredVersions(c) : c \in AllIds}

ExpectedAdds ==
    {cv \in AllIds \X AllVersions : cv[2] \in DesiredVersions(cv[1]) \ RemoteVersions(cv[1])}

ExpectedRemoves ==
    {cv \in AllIds \X AllVersions : cv[2] \in RemoteVersions(cv[1]) \ DesiredVersions(cv[1])}

\* C3: when perform() has completed, the add calls it made are exactly the
\* (id, version) with version desired and not remote, the remove calls exactly
\* those with version remote and not desired, each made once.
C3_ExactVersionOps ==
    pc = "done" =>
        /\ Targets("add") = ExpectedAdds
        /\ Targets("remove") = ExpectedRemoves
        /\ Cardinality({i \in 1..Len(trace) : trace[i].action \in {"add", "remove"}})
              = Cardinality(ExpectedAdds) + Cardinality(ExpectedRemoves)

C3_Witness ==
    /\ pc = "done"
    /\ Cardinality(ExpectedAdds) >= 1
    /\ Cardinality(ExpectedRemoves) >= 2
    /\ Targets("add") = ExpectedAdds

\* ------------------------------------------------------------------ C4
\* C4: in one run no (id, version) is the target of an add call and of a remove call.
C4_NoAddAndRemove == Targets("add") \cap Targets("remove") = {}

C4_Witness ==
    /\ pc = "done"
    /\ \E c \in Components : CallsOf("add", c) # {} /\ CallsOf("remove", c) # {}

\* ------------------------------------------------------------------ C5
\* C5: for a component in the desired inventory only, with n versions, a completed
\* perform() made n add calls for it, and no remove call and no change call,
\* whatever its desired license-approved.
C5_DesiredOnly ==
    pc = "done" =>
        \A c \in DesiredIds \ RemoteIds :
            /\ Cardinality(CallsOf("add", c)) = Cardinality(manifest.val[c].versions)
            /\ CallsOf("remove", c) = {}
            /\ CallsOf("change", c) = {}

C5_Witness ==
    /\ pc = "done"
    /\ \E c \in DesiredIds \ RemoteIds :
        /\ Cardinality(manifest.val[c].versions) = 2
        /\ Cardinality(CallsOf("add", c)) = 2
        /\ manifest.val[c].license_approved = PyTrue

\* ------------------------------------------------------------------ C6
\* C6: for a component in both inventories, a completed perform() made exactly one
\* change call, with the desired value, when the desired license-approved is True
\* or False and differs from the remote one, and none otherwise.
C6_LicenseChange ==
    pc = "done" =>
        \A c \in DesiredIds \cap RemoteIds :
            LET want == manifest.val[c].license_approved
            IN  IF want # None /\ want # bom_comp_map.val[c].license_approved
                THEN /\ Cardinality(CallsOf("change", c)) = 1
                     /\ \A i \in CallsOf("change", c) : trace[i].approved = want
                ELSE CallsOf("change", c) = {}

C6_Witness ==
    /\ pc = "done"
    /\ \E c \in DesiredIds \cap RemoteIds :
        /\ manifest.val[c].license_approved = PyFalse
        /\ bom_comp_map.val[c].license_approved = PyTrue
        /\ Cardinality(CallsOf("change", c)) = 1

\* ------------------------------------------------------------------ C7
\* C7: a dry run sends no mutating request, so at every point of it, finished or
\* aborted, the curated list is what it was when the run started.
C7_DryRunNoMutation == dryrun => (requests = <<>> /\ bom = bom_at_start)

C7_Witness ==
    /\ dryrun
    /\ pc = "done"
    /\ \E c \in Components :
        CallsOf("add", c) # {} /\ CallsOf("remove", c) # {} /\ CallsOf("change", c) # {}

\* ------------------------------------------------------------------ C9
\* the curated list after the requests of a log that succeeded, in order
RECURSIVE Applied(_, _)
Applied(list, log) ==
    IF log = <<>> THEN list
    ELSE LET r == Head(log)
             link == <<r.component, r.versionName>>
             next == IF ~r.ok THEN list
                     ELSE IF r.method = "POST"
                     THEN Posted(list, [component |-> r.searched, versionName |-> r.versionName,
                                        href_component |-> r.component])
                     ELSE IF r.method = "DELETE" THEN Deleted(list, link)
                     ELSE Updated(list, {rec \in list : Href(rec) = link}, r.reviewStatus)
         IN  Applied(next, Tail(log))

\* C9: a request that failed is the last request of the run and belongs to the last
\* call of the run, the run has ended with the error, and the curated list is the
\* list of the start with the requests that succeeded applied, nothing undone.
C9_AbortOnFailure ==
    /\ \A k \in 1..Len(requests) :
        ~requests[k].ok =>
            /\ k = Len(requests)
            /\ requests[k].op = Len(trace)
            /\ pc = "fatal" /\ outcome = "HTTPError"
    /\ bom = Applied(bom_at_start, requests)

C9_Witness ==
    /\ outcome = "HTTPError"
    /\ Len(requests) >= 2
    /\ requests[1].ok
    /\ bom # bom_at_start
    /\ Len(todo) >= 2

\* ------------------------------------------------------------------ C10
\* no entry of the Knowledgebase under the component has the version of the call
\* or one of the alternates saved for it as its name
NotInKb(call) ==
    LET names == {call.version}
                 \cup Get(bd_alt_canonical_versions, AltKey(call.comp_id, call.version), {})
    IN  ~\E e \in kb : e.component = call.comp_id /\ e.versionName \in names

\* C10: an add call whose version and alternates are all missing from the
\* Knowledgebase is the last call of the run, which exits with code 3 without a
\* request for it; and every POST carries the link of a Knowledgebase entry.
C10_AddNeedsKbEntry ==
    /\ \A i \in 1..Len(trace) :
        (trace[i].action = "add" /\ NotInKb(trace[i])) =>
            /\ i = Len(trace)
            /\ pc = "fatal" /\ outcome = "exit3"
            /\ \A k \in 1..Len(requests) : requests[k].op # i
    /\ \A k \in 1..Len(requests) :
        requests[k].method = "POST" =>
            [component |-> requests[k].searched, versionName |-> requests[k].versionName,
             href_component |-> requests[k].component] \in kb

C10_Witness ==
    /\ outcome = "exit3"
    /\ Len(trace) >= 2
    /\ \E k \in 1..Len(requests) : requests[k].method = "POST" /\ requests[k].ok
    /\ todo # <<>>

\* ------------------------------------------------------------------ C8
\* the run that has just ended is a run with no failed request that followed a dry
\* run from the same curated list (the Knowledgebase, the alias file and the
\* manifests never change)
RealAfterDry ==
    /\ run = 2 /\ pc \in {"done", "fatal"}
    /\ prev.dryrun /\ ~dryrun
    /\ \A k \in 1..Len(requests) : requests[k].ok
    /\ bom_at_start = prev.bom_at_start

\* C8 as stated: the real run made the same calls in the same order, ended the
\* same way and counted the same number of operations as the dry run before it.
C8_SameSequence ==
    RealAfterDry =>
        /\ trace = prev.trace
        /\ outcome = prev.outcome
        /\ actions_taken = prev.actions_taken

\* C8: the real run ended the same way as the dry run before it (completed, or the
\* same exit), and when they completed they made the same calls, each once, and
\* counted the same number of operations; the order of the calls may differ.
C8_SameOutcome ==
    RealAfterDry =>
        /\ outcome = prev.outcome
        /\ outcome = "ok" =>
            /\ Range(trace) = Range(prev.trace)
            /\ Len(trace) = Len(prev.trace)
            /\ actions_taken = prev.actions_taken

C8_Witness ==
    /\ RealAfterDry
    /\ pc = "done"
    /\ Len(trace) >= 3
    /\ \E i \in 1..Len(trace) : trace[i].action = "add"
    /\ \E i \in 1..Len(trace) : trace[i].action = "change"
    /\ bom # bom_at_start

\* ------------------------------------------------------------------ C11
\* the records held from the first read that match a remove call: same component,
\* same canonical version name
HeldMatches(call) ==
    {i \in 1..Len(bom_components) :
        /\ bom_components[i].component = call.comp_id
        /\ bom_components[i].componentVersionName = call.version}

\* C11: every remove call of a run finds a record among those held from the first
\* read, with the same component and the same canonical version, so the run never
\* exits with code 1; every DELETE goes to the link of such a record; and a run
\* that exited with code 1 sent no request for the call that missed.
C11_RemoveFindsRecord ==
    /\ \A i \in 1..Len(trace) : trace[i].action = "remove" => HeldMatches(trace[i]) # {}
    /\ outcome # "exit1"
    /\ \A k \in 1..Len(requests) :
        requests[k].method = "DELETE" =>
            \E i \in HeldMatches(trace[requests[k].op]) :
                bom_components[i].href = <<requests[k].component, requests[k].versionName>>
    /\ outcome = "exit1" => \A k \in 1..Len(requests) : requests[k].op # Len(trace)

\* a record the service spelled "v1" was removed as version "1"
C11_Witness ==
    /\ pc = "done"
    /\ \E k \in 1..Len(requests) :
        /\ requests[k].method = "DELETE" /\ requests[k].ok
        /\ requests[k].versionName = Vv1
        /\ trace[requests[k].op].version = V1

\* ------------------------------------------------------------------ C12
\* the requests sent by the calls before call j, and by call j
RequestsBefore(j) == SelectSeq(requests, LAMBDA r : r.op < j)
RequestsOf(j) == SelectSeq(requests, LAMBDA r : r.op = j)

\* the records of the component of call j in the curated list when call j started
LiveAt(j) ==
    {rec \in Applied(bom_at_start, RequestsBefore(j)) : rec.component = trace[j].comp_id}

\* C12: in a run that is not a dry run, a change call sends PUTs only to records of
\* its component that are in the curated list at the moment of the call (added
\* earlier in the run included, deleted earlier excluded), one per record, each with
\* the requested review status, and to all of them unless a PUT failed.
C12_UpdatesLiveRecords ==
    ~dryrun =>
        \A j \in 1..Len(trace) :
            trace[j].action = "change" =>
                LET puts == RequestsOf(j)
                    status == IF trace[j].approved = PyTrue THEN Reviewed ELSE NotReviewed
                    links == {<<puts[k].component, puts[k].versionName>> : k \in 1..Len(puts)}
                    live == {Href(rec) : rec \in LiveAt(j)}
                IN  /\ \A k \in 1..Len(puts) :
                        /\ puts[k].method = "PUT"
                        /\ puts[k].component = trace[j].comp_id
                        /\ puts[k].reviewStatus = status
                    /\ Cardinality(links) = Len(puts)
                    /\ links \subseteq live
                    /\ (\A k \in 1..Len(puts) : puts[k].ok) => links = live

\* a change call updated two records, one of them added earlier in the run, after
\* another record of the component was deleted
C12_Witness ==
    /\ pc = "done" /\ ~dryrun
    /\ \E j \in 1..Len(trace) :
        /\ trace[j].action = "change"
        /\ Len(RequestsOf(j)) = 2
        /\ \E k \in 1..Len(requests) :
            /\ requests[k].method = "POST" /\ requests[k].op < j
            /\ \E n \in 1..Len(requests) :
                /\ requests[n].op = j
                /\ requests[n].component = requests[k].component
                /\ requests[n].versionName = requests[k].versionName
        /\ \E k \in 1..Len(requests) :
            /\ requests[k].method = "DELETE" /\ requests[k].op < j
            /\ requests[k].component = trace[j].comp_id

\* ------------------------------------------------------------------ C13
\* the Knowledgebase entries add call i can resolve to
Found(i) ==
    FindCanonicalComponentVersion(kb, bd_alt_canonical_versions,
                                  trace[i].comp_id, trace[i].version)

\* call i is an add whose link carries another component id than the call's
Mismatched(i) ==
    /\ trace[i].action = "add"
    /\ Found(i) # {}
    /\ \A e \in Found(i) : e.href_component # trace[i].comp_id

\* C13: an add call whose link carries another component id does not end the run:
\* when the run is not a dry run the POST is sent with that link, and unless the
\* POST failed the call is counted and the run goes on to the calls after it; a
\* run that completes has made every add and remove of the diff.
C13_MismatchContinues ==
    /\ \A i \in 1..Len(trace) :
        Mismatched(i) =>
            /\ ~dryrun =>
                \E k \in 1..Len(requests) :
                    /\ requests[k].op = i /\ requests[k].method = "POST"
                    /\ requests[k].component # trace[i].comp_id
                    /\ [component |-> requests[k].searched,
                        versionName |-> requests[k].versionName,
                        href_component |-> requests[k].component] \in Found(i)
            /\ (dryrun \/ \A k \in 1..Len(requests) : requests[k].op = i => requests[k].ok) =>
                /\ actions_taken >= i
                /\ ~(pc = "fatal" /\ i = Len(trace))
    /\ pc = "done" =>
        /\ Targets("add") = ExpectedAdds
        /\ Targets("remove") = ExpectedRemoves
        /\ actions_taken = Len(trace)

\* a completed run sent a POST with a link of another component id and made
\* another call after it
C13_Witness ==
    /\ pc = "done" /\ ~dryrun
    /\ \E i \in 1..Len(trace) :
        /\ Mismatched(i)
        /\ i < Len(trace)
        /\ \E k \in 1..Len(requests) :
            requests[k].op = i /\ requests[k].ok /\ requests[k].component = "c3"

\* ------------------------------------------------------------------ C14
\* the projects named by the include-projects of a project's manifests
Includes(tree, project) ==
    UNION {UNION {Range(m[i][2]) : i \in {j \in 1..Len(m) : m[j][1] = "include-projects"}} :
            m \in Range(Get(tree, project, <<>>))}

\* the projects whose manifests the walk is to load: the project of the run and
\* those reached through include-projects
RECURSIVE ReachedProjects(_, _)
ReachedProjects(tree, S) ==
    LET T == S \cup UNION {Includes(tree, project) : project \in S}
    IN  IF T = S THEN S ELSE ReachedProjects(tree, T)

\* the top-level keys of the manifests of those projects
LoadedKeys(tree) ==
    UNION {UNION {{m[i][1] : i \in 1..Len(m)} : m \in Range(Get(tree, project, <<>>))} :
            project \in ReachedProjects(tree, {DefaultProject})}

HasUnknownKey == LoadedKeys(files) \ StructuralKeys # {}

\* C14: when a manifest of the project of the run, or of a project reached through
\* include-projects, has a top-level key other than include-projects, meta and
\* components, the loading never completes: perform() is never started, no call is
\* made and no request is sent, and when the run has ended it has ended fatally.
C14_UnknownKeyIsFatal ==
    HasUnknownKey =>
        /\ pc \in {"start", "manifests", "fatal"}
        /\ pc = "manifests" => next_entry <= Len(entries)
        /\ pc = "fatal" => outcome \in {"exit5", "exit2", "RecursionError"}
        /\ trace = <<>> /\ requests = <<>> /\ bom = bom_at_start

\* the unknown key is in a manifest reached through include-projects, after a
\* component of the including manifest was handed to add_component
C14_Witness ==
    /\ HasUnknownKey
    /\ "q" \in DOMAIN files
    /\ \E m \in Range(files.q) : \E i \in 1..Len(m) : m[i][1] = "licenses"
    /\ outcome = "exit5"
    /\ next_entry = 2
    /\ ~dryrun /\ bom # {}

\* ------------------------------------------------------------------ C15
\* C15: when perform() has completed, in a dry run as well, the total it reports is
\* the number of calls it made, every add, remove and change call counted once; it
\* reports "no updates needed" exactly when it made no call, and the run has ended
\* normally either way.
C15_ReportedTotal ==
    pc = "done" =>
        /\ actions_taken = Len(trace)
        /\ Len(trace) = Cardinality(Targets("add")) + Cardinality(Targets("remove"))
                          + Cardinality({c \in AllIds : CallsOf("change", c) # {}})
        /\ Report(actions_taken).count = Len(trace)
        /\ (Report(actions_taken).message
                = "Current components match manifest - no updates needed!") <=> (trace = <<>>)
        /\ outcome = "ok"

\* a dry run that made a call of each kind and reports three operations
C15_Witness ==
    /\ pc = "done" /\ dryrun
    /\ actions_taken = 3
    /\ \A action \in {"add", "remove", "change"} :
        \E i \in 1..Len(trace) : trace[i].action = action

\* ------------------------------------------------------------------ C16
\* C16: canonicalize_version is idempotent: called again on what it returned, with
\* the same component name, it returns the same string.
C16_Idempotent == Len(returned) = 2 => returned[2] = returned[1]

\* ------------------------------------------------------------------ C17
\* no component-specific heuristic applies to the name, in whatever case it is written
NoHeuristic(comp_name) ==
    LET name == Lower(comp_name)
    IN  ~StartsWith(name, Erlang) /\ ~StartsWith(name, GoLang) /\ ~Contains(name, Certifi)

\* a string of digits and dots, one at least
OnlyDigitsDots(d) == d # <<>> /\ Range(d) \subseteq DigitsDots

\* C17: for every name and every string d of digits and dots (one at least), "v"
\* followed by d canonicalizes to what d canonicalizes to, and both to d itself
\* when no component-specific heuristic applies to the name; a leading "v" is kept
\* when what follows it has a character that is neither a digit nor a dot.
C17_LeadingV ==
    returned # <<>> =>
        LET version == args.version
            name == args.comp_name
        IN  /\ (version # <<>> /\ version[1] = "v" /\ OnlyDigitsDots(Tail(version))) =>
                /\ returned[1] = canonicalize_version(name, Tail(version))
                /\ NoHeuristic(name) => returned[1] = Tail(version)
            /\ (OnlyDigitsDots(version) /\ NoHeuristic(name)) => returned[1] = version
            /\ (version # <<>> /\ version[1] = "v"
                    /\ \E i \in 2..Len(version) : version[i] \notin DigitsDots) =>
                returned[1] = version

\* "v25.0" of a component without heuristic has come back as "25.0"
C17_Witness ==
    /\ Len(returned) = 1
    /\ NoHeuristic(args.comp_name)
    /\ args.version = <<"v", "2", "5", ".", "0">>
    /\ returned[1] = <<"2", "5", ".", "0">>

\* ------------------------------------------------------------------ C18
\* the call is for a certifi component (no heuristic that comes first applies) and
\* a version YYYY.M.D with a month and a day of one or two digits
CertifiDate ==
    /\ "version" \in DOMAIN args
    /\ Contains(args.comp_name, Certifi)
    /\ ~StartsWith(args.comp_name, Erlang) /\ ~StartsWith(args.comp_name, GoLang)
    /\ date_re_match(args.version)

\* YYYY.MM.DD and the spelling without leading zeros of a date
Padded(version) ==
    LET g == date_re_groups(version)
    IN  g[1] \o <<".">> \o PadLeft(g[2], 2) \o <<".">> \o PadLeft(g[3], 2)

Unpadded(version) ==
    LET g == date_re_groups(version)
    IN  IntStr(g[1]) \o <<".">> \o IntStr(g[2]) \o <<".">> \o IntStr(g[3])

C19_ErlangPrefix ==
    (returned # <<>> /\ StartsWith(args.version, OtpPrefix)) =>
        IF StartsWith(args.comp_name, Erlang)
        THEN returned[1] = SubSeq(args.version, 5, Len(args.version))
        ELSE returned[1] = args.version

\* "OTP-OTP-25.0" of erlang/otp has come back as "OTP-25.0"
C19_Witness ==
    /\ Len(returned) = 1
    /\ args.comp_name = Erlang \o <<"/", "o", "t", "p">>
    /\ args.version = OtpPrefix \o OtpPrefix \o <<"2", "5", ".", "0">>
    /\ returned[1] = OtpPrefix \o <<"2", "5", ".", "0">>

\* ------------------------------------------------------------------ C20
\* the keys of the fallback versions of bd_aliases.yaml, canonicalized as the
\* versions of the manifests are: with the component name in lower case
LowerCaseFallbackKeys ==
    UNION {{AltKey(aliasfile[i][1],
                   canonicalize_version(Lower(Get(aliasfile[i][2], "bd_name", UnknownName)), w)) :
                w \in DOMAIN Get(aliasfile[i][2], "fallback_versions", [k \in {} |-> <<>>])} :
            i \in 1..Len(aliasfile)}

\* C20: the heuristics apply to a component name in whatever case it is written: once
\* the program has loaded bd_aliases.yaml and the curated list, every fallback is
\* stored under the key its version has with the name in lower case, the key the
\* version of a manifest resolves to, and every version of the remote inventory is
\* the canonical form under the name in lower case.
C20_CaseInsensitive ==
    pc # "start" =>
        /\ DOMAIN bd_comp_version_fallbacks = LowerCaseFallbackKeys
        /\ \A i \in 1..Len(bom_components) :
            bom_components[i].componentVersionName
                = canonicalize_version(Lower(bom_components[i].componentName),
                                       bom_components[i].href[2])


\* ------------------------------------------------------------------ calls one after the other
\* canonicalize_version called several times in one process, with and without
\* save_alts, on an index the earlier calls have filled
MaxCalls == 3

CallArgs ==
    [comp_name : {<<"z", "l", "i", "b">>, Erlang \o <<"/", "o", "t", "p">>, Certifi},
     comp_id : {"c1"},
     version : {<<"v", "1">>, <<"1">>, OtpPrefix \o <<"2", "5">>,
                <<"2", "0", "2", "3", ".", "5", ".", "7">>},
     save_alts : BOOLEAN]

\* CanonicalizeCall with a slip: a version whose key is in the index already comes
\* back in a spelling registered for it
CanonicalizeCall_FromIndex ==
    /\ Len(returned) < MaxCalls
    /\ \E a \in CallArgs :
        LET canon_ver == canonicalize_version(a.comp_name, a.version)
            key == AltKey(a.comp_id, canon_ver)
        IN  /\ \E w \in (IF key \in DOMAIN bd_alt_canonical_versions
                         THEN bd_alt_canonical_versions[key] ELSE {canon_ver}) :
                  returned' = Append(returned, [call |-> a, value |-> w])
            /\ bd_alt_canonical_versions' =
                  (IF a.save_alts
                   THEN AddAlts(bd_alt_canonical_versions, a.comp_id, a.comp_name, a.version)
                   ELSE bd_alt_canonical_versions)
    /\ UNCHANGED <<bom, src_dirs, disk, disk_at_start, kb, aliasfile, entries, files, args, run, dryrun, pc, outcome,
                   bd_comp_id_aliases, bd_comp_version_fallbacks, bom_components,
                   bom_comp_map, manifest, next_entry, todo, actions_taken, trace, requests,
                   lookups, bom_at_start, prev>>

\* one more call canonicalize_version(comp_name, comp_id, version, save_alts)
CanonicalizeCall ==
    /\ Len(returned) < MaxCalls
    /\ \E a \in CallArgs :
        /\ returned' = Append(returned,
              [call |-> a, value |-> canonicalize_version(a.comp_name, a.version)])
        /\ bd_alt_canonical_versions' =
              (IF a.save_alts
               THEN AddAlts(bd_alt_canonical_versions, a.comp_id, a.comp_name, a.version)
               ELSE bd_alt_canonical_versions)
    /\ UNCHANGED <<bom, src_dirs, disk, disk_at_start, kb, aliasfile, entries, files, args, run, dryrun, pc, outcome,
                   bd_comp_id_aliases, bd_comp_version_fallbacks, bom_components,
                   bom_comp_map, manifest, next_entry, todo, actions_taken, trace, requests,
                   lookups, bom_at_start, prev>>

InitCalls == files = NoFiles /\ args = NoArgs /\ InitFrom({{}}, {{}}, {<<>>}, {<<>>})

NextCalls == CanonicalizeCall

SpecCalls == InitCalls /\ [][NextCalls]_vars

\* ------------------------------------------------------------------ C21
SameInput(a, b) ==
    a.comp_name = b.comp_name /\ a.comp_id = b.comp_id /\ a.version = b.version

AltPairs(alts) == UNION {{<<k, a>> : a \in alts[k]} : k \in DOMAIN alts}

\* what canonicalize_version(comp_name, comp_id, version, save_alts=True) may register
PairsOf(comp_name, comp_id, version) ==
    {<<AltKey(comp_id, CanonVer(comp_name, version)), a>> : a \in SavedAlts(comp_name, version)}

\* what the entry add_component is about to take may register: the alternates
\* of its versions, and of the fallback strings configured for them
EntryPairs ==
    IF ~(pc = "manifests" /\ next_entry <= Len(entries)
         /\ "comp_data" \in DOMAIN entries[next_entry])
    THEN {}
    ELSE LET comp_data == entries[next_entry].comp_data
             comp_name == Lower(Get(comp_data, "bd_name", entries[next_entry].comp_name))
             bd_id == Get(comp_data, "bd_id", None)
             comp_id == Get(bd_comp_id_aliases, bd_id, bd_id)
             versions == Range(Get(comp_data, "versions", <<>>))
             keys == {AltKey(comp_id, CanonVer(comp_name, v)) : v \in versions}
             strings == {bd_comp_version_fallbacks[k] :
                            k \in keys \cap DOMAIN bd_comp_version_fallbacks}
         IN  UNION {PairsOf(comp_name, comp_id, w) : w \in versions \cup strings}

\* C22: reading the curated list and bd_aliases.yaml leaves
\* bd_alt_canonical_versions as it was; an alternate is added only by
\* add_component, and it is an alternate of a version of the manifest entry or of
\* a fallback string configured for one.
C22_IndexFrame ==
    [][/\ AltPairs(bd_alt_canonical_versions) \subseteq AltPairs(bd_alt_canonical_versions')
       /\ AltPairs(bd_alt_canonical_versions') \ AltPairs(bd_alt_canonical_versions)
             \subseteq EntryPairs]_vars

\* a run that has read a curated list and fallbacks whose versions have
\* alternates, and whose index holds an alternate of a fallback string
C22_Witness ==
    /\ pc = "manifests" /\ next_entry = 2
    /\ bom_components # <<>>
    /\ SavedAlts(Lower(bom_components[1].componentName), Otp25) # {}
    /\ DOMAIN bd_comp_version_fallbacks # {}
    /\ \E k \in DOMAIN bd_comp_version_fallbacks :
          \E p \in AltPairs(bd_alt_canonical_versions) :
              /\ k[1] \in DOMAIN manifest.val
              /\ p[1] = AltKey(k[1], CanonVer(manifest.val[k[1]].bd_name, bd_comp_version_fallbacks[k]))
              /\ p[2] = bd_comp_version_fallbacks[k]


\* ------------------------------------------------------------------ C23
\* the lookups the step has added
NewLookups == {lookups'[i] : i \in (DOMAIN lookups') \ DOMAIN lookups}

\* the name and the id add_component works with for the entry it is about to take
EntryName == Lower(Get(entries[next_entry].comp_data, "bd_name", entries[next_entry].comp_name))
EntryId ==
    LET bd_id == Get(entries[next_entry].comp_data, "bd_id", None)
    IN  Get(bd_comp_id_aliases, bd_id, bd_id)

\* a fallback is configured for key and the curated list does not have the
\* canonical version
NeedsFallback(key) ==
    /\ key \in DOMAIN bd_comp_version_fallbacks
    /\ ~(HasKey(bom_comp_map, key[1]) /\ key[2] \in bom_comp_map.val[key[1]].versions)

\* the index is read for e on behalf of a fallback: e is a version with a
\* fallback the curated list lacks, or the canonical form of its fallback string
ReadForFallback(e) ==
    \/ NeedsFallback(AltKey(e.comp_id, e.version))
    \/ \E key \in DOMAIN bd_comp_version_fallbacks :
          /\ NeedsFallback(key)
          /\ key[1] = e.comp_id
          /\ e.version = CanonVer(EntryName, bd_comp_version_fallbacks[key])

\* C23 as stated: bd_alt_canonical_versions is written only while the manifests
\* are loaded, and no alternates are looked up before perform() starts.
C23_ReadOnlyInPerform ==
    [][/\ bd_alt_canonical_versions' # bd_alt_canonical_versions => pc = "manifests"
       /\ \A e \in NewLookups : e.op = "alts" => pc = "perform"]_vars

\* C23: bd_alt_canonical_versions is written only while the manifests are
\* loaded; it is read by perform() and, while the manifests are loaded, only by
\* fallback_version_if_necessary for a version that has a fallback configured
\* and that the curated list lacks.
C23_ReadByFallbackOrPerform ==
    [][/\ bd_alt_canonical_versions' # bd_alt_canonical_versions => pc = "manifests"
       /\ \A e \in NewLookups :
             e.op = "alts" =>
                \/ pc = "perform"
                \/ /\ pc = "manifests"
                   /\ e.comp_id = EntryId
                   /\ ReadForFallback(e)]_vars

\* a run whose add_component looked up alternates for a fallback and whose
\* perform() looked up alternates for an add
C23_Witness ==
    /\ \E i \in DOMAIN lookups :
          lookups[i].op = "alts" /\ lookups[i].hit /\ lookups[i].during = "add_component"
    /\ \E i \in DOMAIN lookups :
          lookups[i].op = "alts" /\ lookups[i].hit /\ lookups[i].during = "add_component_version"


\* ------------------------------------------------------------------ C24
\* add_component is about to take a component entry
TakesEntry ==
    /\ pc = "manifests" /\ next_entry <= Len(entries)
    /\ "comp_data" \in DOMAIN entries[next_entry]

\* the versions of that entry, as written and in canonical form
EntryVersions == Range(Get(entries[next_entry].comp_data, "versions", <<>>))
EntryCanon == {CanonVer(EntryName, v) : v \in EntryVersions}

\* the versions the manifest has for component c
Folded(mani, c) == IF c \in DOMAIN mani.val THEN mani.val[c].versions ELSE {}

\* C24: for a version that has no fallback configured, or that the curated list
\* already has, fallback_version_if_necessary returns the version as it is and
\* sends nothing to the Knowledgebase: add_component stores the canonical
\* versions of the entry and no lookup is made.
C24_NoFallbackNoProbe ==
    [][(TakesEntry /\ \A w \in EntryCanon : ~NeedsFallback(AltKey(EntryId, w)))
          => /\ lookups' = lookups
             /\ pc' = pc
             /\ Folded(manifest', EntryId) = Folded(manifest, EntryId) \cup EntryCanon]_vars

\* an entry whose version has a fallback configured and is in the curated list,
\* while the Knowledgebase lacks it, has been taken without a lookup
C24_Witness ==
    /\ pc = "manifests" /\ next_entry = 2 /\ lookups = <<>>
    /\ \E key \in DOMAIN bd_comp_version_fallbacks :
          /\ key[2] \in Folded(manifest, key[1])
          /\ key[2] \in Folded(bom_comp_map, key[1])
          /\ FindCanonicalComponentVersion(kb, bd_alt_canonical_versions, key[1], key[2]) = {}


\* ------------------------------------------------------------------ C25
\* the entry add_component is about to take has one version
OneVersion == TakesEntry /\ Len(Get(entries[next_entry].comp_data, "versions", <<>>)) = 1

\* the alternates registered under <<comp_id, canonical form of w>> once w, a
\* version of comp_name, has been canonicalized with save_alts
RegisteredFor(alts, comp_name, comp_id, w) ==
    LET key == AltKey(comp_id, CanonVer(comp_name, w))
    IN  (IF key \in DOMAIN alts THEN alts[key] ELSE {}) \cup SavedAlts(comp_name, w)

\* the Knowledgebase has an entry of comp_id under one of the names
InKb(comp_id, names) == \E e \in kb : e.component = comp_id /\ e.versionName \in names

\* the Knowledgebase has the canonical form of w or an alternate registered for it
KbHasVersion(alts, comp_name, comp_id, w) ==
    InKb(comp_id, {CanonVer(comp_name, w)} \cup RegisteredFor(alts, comp_name, comp_id, w))

\* C25: when the version has a fallback configured, the curated list lacks the
\* canonical version and the Knowledgebase has the canonical version or an
\* alternate registered for it, fallback_version_if_necessary returns the
\* canonical version: add_component stores it, and neither the fallback nor
\* the alternate spelling.
C25_FoundKeepsCanonical ==
    [][(/\ OneVersion
        /\ \A w \in EntryVersions :
              /\ NeedsFallback(AltKey(EntryId, CanonVer(EntryName, w)))
              /\ KbHasVersion(bd_alt_canonical_versions, EntryName, EntryId, w))
          => /\ pc' = pc
             /\ Folded(manifest', EntryId) = Folded(manifest, EntryId) \cup EntryCanon]_vars

\* add_component has taken a version with a fallback that the curated list
\* lacks and that the Knowledgebase has in an alternate spelling only
C25_Witness ==
    /\ pc = "manifests" /\ next_entry = 2
    /\ \E key \in DOMAIN bd_comp_version_fallbacks :
          /\ key[2] \in Folded(manifest, key[1])
          /\ key[2] \notin Folded(bom_comp_map, key[1])
          /\ ~InKb(key[1], {key[2]})
          /\ key \in DOMAIN bd_alt_canonical_versions
          /\ InKb(key[1], bd_alt_canonical_versions[key])
          /\ \E i \in DOMAIN lookups :
                lookups[i].op = "search" /\ lookups[i].hit /\ lookups[i].version # key[2]


\* ------------------------------------------------------------------ C26
\* the fallback string configured for w, a version of the entry
FallbackOf(w) == bd_comp_version_fallbacks[AltKey(EntryId, CanonVer(EntryName, w))]

\* the Knowledgebase has the canonical form of the fallback of w, or an alternate
\* registered for it once w and the fallback have been canonicalized
KbHasFallback(w) ==
    KbHasVersion(AddAlts(bd_alt_canonical_versions, EntryId, EntryName, w),
                 EntryName, EntryId, FallbackOf(w))

\* C26: when the version has a fallback configured, the curated list has neither
\* the canonical version nor the fallback, the Knowledgebase has neither the
\* canonical version nor an alternate of it, and the Knowledgebase has the
\* fallback or an alternate spelling of it, fallback_version_if_necessary
\* returns the canonical form of the fallback string, and add_component stores
\* that version.
C26_FallbackTaken ==
    [][(/\ OneVersion
        /\ \A w \in EntryVersions :
              /\ NeedsFallback(AltKey(EntryId, CanonVer(EntryName, w)))
              /\ CanonVer(EntryName, FallbackOf(w)) \notin Folded(bom_comp_map, EntryId)
              /\ ~KbHasVersion(bd_alt_canonical_versions, EntryName, EntryId, w)
              /\ KbHasFallback(w))
          => /\ pc' = pc
             /\ Folded(manifest', EntryId) =
                   Folded(manifest, EntryId)
                      \cup {CanonVer(EntryName, FallbackOf(w)) : w \in EntryVersions}]_vars

\* add_component has stored the canonical form of a fallback that the
\* Knowledgebase has under an alternate spelling, for a version that is neither
\* in the curated list nor in the Knowledgebase
C26_Witness ==
    /\ pc = "manifests" /\ next_entry = 2
    /\ \E key \in DOMAIN bd_comp_version_fallbacks :
          LET name == IF key[1] \in DOMAIN manifest.val THEN manifest.val[key[1]].bd_name ELSE <<>>
              canon_fallback_ver == CanonVer(name, bd_comp_version_fallbacks[key])
          IN  /\ Folded(manifest, key[1]) = {canon_fallback_ver}
              /\ canon_fallback_ver # bd_comp_version_fallbacks[key]
              /\ canon_fallback_ver # key[2]
              /\ Folded(bom_comp_map, key[1]) \cap {key[2], canon_fallback_ver} = {}
              /\ ~InKb(key[1], {key[2], canon_fallback_ver})
              /\ InKb(key[1], {bd_comp_version_fallbacks[key]})


\* ------------------------------------------------------------------ C27
\* add_component ends the run with exit code 2 and nothing has been sent that
\* changes the curated list
FatalBeforeMutation ==
    /\ pc' = "fatal" /\ outcome' = "exit2"
    /\ requests' = <<>>
    /\ bom' = bom_at_start

\* C27 as stated: when a fallback is configured for the version and the
\* Knowledgebase has neither the canonical version or an alternate of it nor the
\* fallback or an alternate of it, the run ends fatally while the manifests are
\* loaded, before any request that changes the curated list.
C27_MissingFallbackFatal ==
    [][(/\ OneVersion
        /\ \A w \in EntryVersions :
              /\ AltKey(EntryId, CanonVer(EntryName, w)) \in DOMAIN bd_comp_version_fallbacks
              /\ ~KbHasVersion(bd_alt_canonical_versions, EntryName, EntryId, w)
              /\ ~KbHasFallback(w))
          => FatalBeforeMutation]_vars

\* C27: when a fallback is configured for the version, the curated list does not
\* have the canonical version, and the Knowledgebase has neither the canonical
\* version or an alternate of it nor the fallback or an alternate of it, the run
\* ends fatally while the manifests are loaded, before any request that changes
\* the curated list.
C27_NeededFallbackFatal ==
    [][(/\ OneVersion
        /\ \A w \in EntryVersions :
              /\ NeedsFallback(AltKey(EntryId, CanonVer(EntryName, w)))
              /\ ~KbHasVersion(bd_alt_canonical_versions, EntryName, EntryId, w)
              /\ ~KbHasFallback(w))
          => FatalBeforeMutation]_vars

\* add_component has ended the run after it searched the Knowledgebase for the
\* canonical version, its alternate, and the fallback, all in vain
C27_Witness ==
    /\ pc = "fatal" /\ outcome = "exit2" /\ requests = <<>> /\ bom = bom_at_start
    /\ Cardinality({i \in DOMAIN lookups : lookups[i].op = "search"}) >= 3
    /\ \A i \in DOMAIN lookups : ~lookups[i].hit \/ lookups[i].op = "alts"


\* ------------------------------------------------------------------ lookups on their own
\* find_canonical_component_version called for a canonical version, after a
\* version of the component has been canonicalized.  Version names may hold a
\* "+", which the search takes for any one character.
Plus12 == <<"1", "+", "2">>
Dot12 == <<"1", ".", "2">>
Date57 == <<"2", "0", "2", "3", ".", "5", ".", "7">>
Date0507 == <<"2", "0", "2", "3", ".", "0", "5", ".", "0", "7">>

FindVersions == {<<"1">>, Plus12, OtpPrefix \o Plus12, Date57}

FindKbNames ==
    {<<"1">>, <<"v", "1">>, Plus12, Dot12, OtpPrefix \o Plus12, OtpPrefix \o Dot12,
     Date0507, Date57, <<"v">> \o Date57}

\* Knowledgebases with at most two versions of c1
FindKbs ==
    {S \in SUBSET {KbEntry("c1", w) : w \in FindKbNames} : Cardinality(S) <= 2}

FindArgs ==
    {a \in [comp_name : {<<"z", "l", "i", "b">>, Erlang, Certifi}, comp_id : {"c1"},
            version : FindVersions, save_alts : BOOLEAN,
            target : {<<"1">>, Plus12, Date0507}] :
        a.target \in {CanonVer(a.comp_name, w) : w \in FindVersions}}

\* what a call returns: a link, or None
Handles(found) == IF found = {} THEN {{}} ELSE {{e} : e \in found}

\* find_canonical_component_version(comp_name, comp_id, target)
FindCanonicalCall ==
    /\ "target" \in DOMAIN args
    /\ Len(returned) = 1
    /\ \E o \in FindOutcomes(kb, bd_alt_canonical_versions, args.comp_id, args.target) :
        /\ lookups' = lookups \o During(o.log, "find_canonical_component_version")
        /\ \E h \in Handles(o.found) : returned' = Append(returned, h)
    /\ UNCHANGED <<bom, src_dirs, disk, disk_at_start, kb, aliasfile, entries, files, args, run, dryrun, pc, outcome,
                   bd_comp_id_aliases, bd_comp_version_fallbacks, bd_alt_canonical_versions,
                   bom_components, bom_comp_map, manifest, next_entry, todo, actions_taken,
                   trace, requests, bom_at_start, prev>>

InitFind == files = NoFiles /\ args \in FindArgs /\ InitFrom({{}}, FindKbs, {<<>>}, {<<>>})

NextFind == CanonicalizeVersion \/ FindCanonicalCall

SpecFind == InitFind /\ [][NextFind]_vars

\* ------------------------------------------------------------------ C28
\* the Knowledgebase entries of comp_id named exactly `version`
Exact(comp_id, version) == {e \in kb : e.component = comp_id /\ e.versionName = version}

\* the entries the search for `version` returns that are not named `version`
FalsePositives(comp_id, version) ==
    {e \in kb : /\ e.component = comp_id
                /\ e.versionName # version
                /\ SearchMatches(SafeVersion(version), e.versionName)}

\* the canonical version and the alternates registered for it
Spellings(comp_id, version) ==
    {version} \cup (IF AltKey(comp_id, version) \in DOMAIN bd_alt_canonical_versions
                    THEN bd_alt_canonical_versions[AltKey(comp_id, version)] ELSE {})

\* C28: a search of the Knowledgebase counts as found only when an entry is named
\* exactly as the version searched for; an entry that matches only because "+"
\* was replaced by the wildcard is not taken, the link returned is that of an
\* entry named as the canonical version or a registered alternate, and None is
\* returned when no entry is named so.
C28_ExactMatchOnly ==
    /\ \A i \in DOMAIN lookups :
          lookups[i].op = "search" =>
              (lookups[i].hit <=> Exact(lookups[i].comp_id, lookups[i].version) # {})
    /\ Len(returned) = 2 =>
          /\ \A e \in returned[2] :
                e.component = args.comp_id /\ e.versionName \in Spellings(args.comp_id, args.target)
          /\ (\A w \in Spellings(args.comp_id, args.target) : Exact(args.comp_id, w) = {})
                => returned[2] = {}

\* a version with a "+" was searched for, the search returned an entry under
\* another name and none under this name, and the call returned None
C28_Witness ==
    /\ Len(returned) = 2 /\ returned[2] = {}
    /\ \E i \in DOMAIN lookups :
          /\ lookups[i].op = "search" /\ ~lookups[i].hit
          /\ "+" \in Range(lookups[i].version)
          /\ FalsePositives(lookups[i].comp_id, lookups[i].version) # {}


\* ------------------------------------------------------------------ C29
\* the alternates registered for exactly <<comp_id, version>>
Alternates(comp_id, version) == Spellings(comp_id, version) \ {version}

\* C29: find_canonical_component_version searches for the canonical version
\* first and for its alternates only after that search missed.  When the
\* Knowledgebase has the canonical version its link is returned and no alternate
\* is searched for, whether or not an alternate is there too; when it has only
\* alternates registered for this id and version, the link of one of them is
\* returned; when it has none of them, None is returned.
C29_CanonicalFirst ==
    Len(returned) = 2 =>
        LET t == args.target
            c == args.comp_id
            others == {i \in DOMAIN lookups : lookups[i].op = "search" /\ i > 1}
        IN  /\ lookups # <<>>
            /\ lookups[1] = During(<<Searched(c, t, Exact(c, t) # {})>>,
                                   "find_canonical_component_version")[1]
            /\ others # {} => ~lookups[1].hit
            /\ \A i \in others : lookups[i].version \in Alternates(c, t)
            /\ Exact(c, t) # {} =>
                  /\ returned[2] # {} /\ returned[2] \subseteq Exact(c, t)
                  /\ Len(lookups) = 1
            /\ (Exact(c, t) = {} /\ \E w \in Alternates(c, t) : Exact(c, w) # {}) =>
                  /\ returned[2] # {}
                  /\ \A e \in returned[2] : e.versionName \in Alternates(c, t)
            /\ (\A w \in Spellings(c, t) : Exact(c, w) = {}) => returned[2] = {}

\* the Knowledgebase has the canonical version and a registered alternate of
\* it: the call returned after one search
C29_Witness ==
    /\ Len(returned) = 2 /\ returned[2] # {}
    /\ Exact(args.comp_id, args.target) # {}
    /\ \E w \in Alternates(args.comp_id, args.target) : Exact(args.comp_id, w) # {}
    /\ Len(lookups) = 1


\* ------------------------------------------------------------------ C30
\* the id add_component stores entry i under
IdOfEntry(i) ==
    LET bd_id == Get(entries[i].comp_data, "bd_id", None)
    IN  Get(bd_comp_id_aliases, bd_id, bd_id)

\* the entries taken so far that mention component c and give license-approved
Specifying(c) ==
    {i \in 1..(next_entry - 1) :
        /\ "comp_data" \in DOMAIN entries[i]
        /\ IdOfEntry(i) = c
        /\ "license_approved" \in DOMAIN entries[i].comp_data}

\* the value of the last of them; None when there is none
LastSpecified(c) ==
    IF Specifying(c) = {} THEN None
    ELSE entries[CHOOSE i \in Specifying(c) : \A j \in Specifying(c) : j <= i]
            .comp_data.license_approved

\* C30: the license-approved of a component in the manifest is the value of the
\* last entry taken that gave one; an entry that gives none leaves the value of
\* an earlier entry in place, and the value is None only when no entry gave one.
C30_LastSpecifiedWins ==
    pc # "start" =>
        \A c \in DOMAIN manifest.val : manifest.val[c].license_approved = LastSpecified(c)


\* ------------------------------------------------------------------ runs with id aliases
\* bd_aliases.yaml gives c4 the alias c5 and, in one file, c5 the alias c6; two
\* manifest entries name the component by any of the three ids
FoldName == Erlang \o <<"/", "o", "t", "p">>

FoldAliasFiles ==
    {<<>>,
     << <<"c4", [bd_name |-> FoldName, fallback_versions |-> [w \in {Bare26} |-> Bare25],
                 bd_id_aliases |-> {"c5"}]>> >>,
     << <<"c4", [bd_name |-> FoldName, fallback_versions |-> [w \in {Bare26} |-> Bare25],
                 bd_id_aliases |-> {"c5"}]>>,
        <<"c5", [bd_name |-> FoldName, bd_id_aliases |-> {"c6"}]>> >>}

FoldKbs == {{KbEntry("c4", Bare25)}, {KbEntry("c4", Bare25), KbEntry("c4", Bare26)}}

FoldBoms ==
    {{}, {[component |-> "c4", componentName |-> KbName("c4"),
           componentVersionName |-> Bare25, reviewStatus |-> NotReviewed]}}

FoldEntries ==
    {[comp_name |-> ManifestName("c4"), comp_data |-> [bd_id |-> id, versions |-> <<w>>]] :
        id \in {"c4", "c5", "c6"}, w \in {Otp26, Bare25}}
    \cup {[comp_name |-> ManifestName("c4"),
           comp_data |-> [bd_id |-> "c4", versions |-> <<Otp26>>, license_approved |-> PyTrue]]}

FoldInputs == UNION {[1..n -> FoldEntries] : n \in 0..MaxEntries}

InitFold ==
    files = NoFiles /\ args = NoArgs /\ InitFrom(FoldBoms, FoldKbs, FoldAliasFiles, FoldInputs)

SpecFold == InitFold /\ [][Next]_vars

\* ------------------------------------------------------------------ C31
\* the alias table as bd_aliases.yaml gives it: alias id to the id it stands for
AliasTable ==
    [a \in UNION {Get(aliasfile[i][2], "bd_id_aliases", {}) : i \in DOMAIN aliasfile} |->
        aliasfile[CHOOSE i \in DOMAIN aliasfile :
                     a \in Get(aliasfile[i][2], "bd_id_aliases", {})][1]]

\* one lookup: the id the table gives, or the id itself
ResolvedOnce(id) == IF id \in DOMAIN AliasTable THEN AliasTable[id] ELSE id

\* the version add_component stores for w, a version of entry i: the canonical
\* version, or the canonical form of its fallback when one is needed and the
\* Knowledgebase lacks the version
StoredFor(i, w) ==
    LET comp_name == Lower(Get(entries[i].comp_data, "bd_name", entries[i].comp_name))
        comp_id == ResolvedOnce(entries[i].comp_data.bd_id)
        canon_ver == CanonVer(comp_name, w)
        key == AltKey(comp_id, canon_ver)
    IN  IF NeedsFallback(key)
           /\ ~InKb(comp_id, {canon_ver} \cup RegisteredFor(bd_alt_canonical_versions,
                                                            comp_name, comp_id, w))
        THEN CanonVer(comp_name, bd_comp_version_fallbacks[key])
        ELSE canon_ver

\* the entries taken so far
Taken == {i \in 1..(next_entry - 1) : "comp_data" \in DOMAIN entries[i]}

\* C31: the id of a manifest entry is looked up once in the alias table (the id
\* itself when it is not there, no second lookup of the result), and the entries
\* that come to the same id, one written with an alias and another with the id
\* itself included, make one record of the manifest, whose versions are the
\* union of the canonical, fallback-resolved versions of all of them.
C31_FoldedByResolvedId ==
    pc \in {"manifests", "perform", "done"} =>
        /\ DOMAIN manifest.val = {ResolvedOnce(entries[i].comp_data.bd_id) : i \in Taken}
        /\ \A c \in DOMAIN manifest.val :
              manifest.val[c].versions =
                 UNION {{StoredFor(i, w) : w \in Range(entries[i].comp_data.versions)} :
                          i \in {j \in Taken : ResolvedOnce(entries[j].comp_data.bd_id) = c}}

\* an entry written with the alias c5 and an entry written with c4 have made one
\* record with two versions, one of them a fallback
C31_Witness ==
    /\ pc = "manifests" /\ next_entry = 3
    /\ entries[1].comp_data.bd_id = "c5" /\ entries[2].comp_data.bd_id = "c4"
    /\ DOMAIN manifest.val = {"c4"}
    /\ manifest.val["c4"].versions = {Bare25, Bare26}
    /\ lookups # <<>>


\* ------------------------------------------------------------------ C32
\* the records of component c the curated list held when the run started
RecordsAtStart(c) == {rec \in bom_at_start : rec.component = c}

\* C32: in bom_comp_map the license-approved of a component is True exactly when
\* one of its records in the curated list is REVIEWED, and False otherwise, in
\* whatever order the service listed the records.
C32_ApprovedIfAnyReviewed ==
    pc # "start" =>
        /\ DOMAIN bom_comp_map.val = {rec.component : rec \in bom_at_start}
        /\ \A c \in DOMAIN bom_comp_map.val :
              bom_comp_map.val[c].license_approved =
                 PyBool(\E rec \in RecordsAtStart(c) : rec.reviewStatus = Reviewed)

\* a component with a reviewed record and an unreviewed one, the unreviewed one
\* read last
C32_Witness ==
    /\ pc = "manifests"
    /\ Len(bom_components) = 2
    /\ bom_components[1].component = bom_components[2].component
    /\ bom_components[1].reviewStatus = Reviewed
    /\ bom_components[2].reviewStatus = NotReviewed
    /\ bom_comp_map.val[bom_components[1].component].license_approved = PyTrue


\* ------------------------------------------------------------------ C33
\* the alternates registered for the version the call returned that begin with "v"
VAlternates ==
    LET key == AltKey(args.comp_id, returned[1])
    IN  IF key \in DOMAIN bd_alt_canonical_versions
        THEN {a \in bd_alt_canonical_versions[key] : a # <<>> /\ a[1] = "v"}
        ELSE {}

\* the version as written began with "v" and the "v" was stripped
VStripped(version) ==
    version # <<>> /\ version[1] = "v" /\ OnlyDigitsDots(Tail(version))

\* C33: with save_alts, canonicalize_version registers an alternate that begins
\* with "v" exactly when the version as written began with "v" and the "v" was
\* stripped; a version of digits and dots without a leading "v" registers none.
C33_VAlternateOnlyIfStripped ==
    (Len(returned) = 1 /\ args.save_alts) => (VAlternates # {} <=> VStripped(args.version))


\* ------------------------------------------------------------------ C34
\* the alternates registered for the version the call returned
AlternatesOfReturned ==
    LET key == AltKey(args.comp_id, returned[1])
    IN  IF key \in DOMAIN bd_alt_canonical_versions THEN bd_alt_canonical_versions[key] ELSE {}

\* C34: every alternate registered under the id and the canonical version
\* canonicalizes, for the same component name, to that canonical version.
C34_AlternatesCanonicalizeBack ==
    (Len(returned) = 1 /\ args.save_alts) =>
        \A a \in AlternatesOfReturned : canonicalize_version(args.comp_name, a) = returned[1]


\* ------------------------------------------------------------------ C35
\* bom_comp_map as the next run would load it from the curated list
Reloaded(items) == LoadBomCompMap(items, EmptyDict)

\* C35: when a component is in the manifest only, with versions and with
\* license-approved True, then after a run that is not a dry run and that
\* completed, the curated list read again gives license-approved True for it.
C35_AddedComponentApproved ==
    (pc = "done" /\ ~dryrun) =>
        \A c \in DesiredIds \ RemoteIds :
            (manifest.val[c].license_approved = PyTrue /\ manifest.val[c].versions # {}) =>
                \A items \in Orderings(bom) :
                    /\ HasKey(Reloaded(items), c)
                    /\ Reloaded(items).val[c].license_approved = PyTrue



\* ------------------------------------------------------------------ the order of the diff
\* perform() starts, the order of the diff left to the library: dictdiffer.diff
\* yields the same changes in an order of its own
StartPerformAnyOrder ==
    /\ pc = "manifests"
    /\ next_entry > Len(entries)
    /\ todo' \in Orderings({Pending(bom_comp_map, manifest)[i] :
                               i \in 1..Len(Pending(bom_comp_map, manifest))})
    /\ pc' = "perform"
    /\ UNCHANGED <<bom, envvars, run, dryrun, outcome, bd_comp_id_aliases,
                   bd_comp_version_fallbacks, bd_alt_canonical_versions, bom_components,
                   bom_comp_map, manifest, next_entry, actions_taken, trace, requests,
                   lookups, bom_at_start, prev>>

NextOrder ==
    \/ Construct
    \/ AddComponent
    \/ StartPerformAnyOrder
    \/ AddComponentVersion
    \/ RemoveComponentVersion
    \/ ChangeComponentVersionLicenseApproved
    \/ Finish

SpecOrder == Init /\ [][NextOrder]_vars

\* the review status a change call asks for
StatusOf(j) == IF trace[j].approved = PyTrue THEN Reviewed ELSE NotReviewed

\* the records of a component in the curated list
RecordsNow(c) == {rec \in bom : rec.component = c}

\* the component is in both inventories and its calls are version changes and a
\* license change
MixedChanges(c) ==
    /\ c \in DesiredIds \cap RemoteIds
    /\ CallsOf("change", c) # {}
    /\ CallsOf("add", c) \cup CallsOf("remove", c) # {}

RemovedOk ==
    {j \in 1..Len(trace) :
        /\ trace[j].action = "remove"
        /\ \E k \in 1..Len(requests) :
            requests[k].op = j /\ requests[k].method = "DELETE" /\ requests[k].ok}

\* C37: in a run that is not a dry run, after a remove call for (id, v) whose DELETE
\* succeeded, no record of id in the curated list has a version name that
\* canonicalizes to v, also when several records of the list canonicalize to v.
C37_RemovedVersionGone ==
    ~dryrun =>
        \A j \in RemovedOk :
            ~\E rec \in bom :
                /\ rec.component = trace[j].comp_id
                /\ Canonicalized(rec).componentVersionName = trace[j].version



\* ------------------------------------------------------------------ the life of a fallback
MaxCycleRuns == 3

V26 == <<"v">> \o Bare26

\* bd_aliases.yaml: Erlang/OTP 26 falls back to 25
CycleAliasFiles ==
    {<< <<"c4", [bd_name |-> <<"E", "r", "l", "a", "n", "g", "/", "O", "T", "P">>,
                 fallback_versions |-> [w \in {Bare26} |-> Bare25],
                 bd_id_aliases |-> {}]>> >>}

\* the curated list: empty, or the fallback in one of its spellings
CycleBoms ==
    {{}} \cup {{[component |-> "c4", componentName |-> KbName("c4"),
                 componentVersionName |-> w, reviewStatus |-> r]} :
                w \in {Bare25, Otp25}, r \in {Reviewed, NotReviewed}}

\* the Knowledgebase before it has version 26
CycleKbs == {{}, {KbEntry("c4", Bare25)}, {KbEntry("c4", Otp25)}}

\* the names under which version 26 may appear in the Knowledgebase
GainedNames == {Bare26, V26}

\* the manifest asks for Erlang 26
CycleEntries ==
    {[comp_name |-> ManifestName("c4"), comp_data |-> d] :
        d \in {[bd_id |-> "c4", versions |-> <<Bare26>>],
               [bd_id |-> "c4", versions |-> <<Bare26>>, license_approved |-> PyTrue]}}

CycleInputs == [1..1 -> CycleEntries]

InitCycle ==
    files = NoFiles /\ args = NoArgs /\ InitFrom(CycleBoms, CycleKbs, CycleAliasFiles, CycleInputs)

\* the program is started again on the same manifests; the Knowledgebase may have
\* gained version 26 since the run before, whose record is kept with those before it
NewRunLater ==
    /\ pc \in {"done", "fatal"}
    /\ run < MaxCycleRuns
    /\ run' = run + 1
    /\ dryrun' \in BOOLEAN
    /\ kb' \in {kb} \cup {kb \cup {KbEntry("c4", w)} : w \in GainedNames}
    /\ prev' = [run |-> run, dryrun |-> dryrun, outcome |-> outcome, trace |-> trace,
                actions_taken |-> actions_taken, requests |-> requests,
                bom_at_start |-> bom_at_start, kb |-> kb, before |-> prev]
    /\ pc' = "start"
    /\ outcome' = ""
    /\ bd_comp_id_aliases' = [k \in {} |-> ""]
    /\ bd_comp_version_fallbacks' = [k \in {} |-> <<>>]
    /\ bd_alt_canonical_versions' = [k \in {} |-> {}]
    /\ bom_components' = <<>>
    /\ bom_comp_map' = EmptyDict
    /\ manifest' = EmptyDict
    /\ next_entry' = 1
    /\ todo' = <<>>
    /\ actions_taken' = 0
    /\ trace' = <<>>
    /\ requests' = <<>>
    /\ lookups' = <<>>
    /\ bom_at_start' = bom
    /\ UNCHANGED <<bom, aliasfile, entries, files, args, returned, src_dirs, disk, disk_at_start>>

NextCycle == Next \/ NewRunLater

SpecCycle == InitCycle /\ [][NextCycle]_vars



\* ------------------------------------------------------------------ C38
\* the curated list held, when the run started, a record of c4 whose name
\* canonicalizes to w
HeldAtStart(w) ==
    \E rec \in bom_at_start :
        rec.component = "c4" /\ Canonicalized(rec).componentVersionName = w

\* the Knowledgebase k has version 26 of c4, as such or as its registered alternate
HasCanonical(k) ==
    \E e \in k : e.component = "c4"
                 /\ e.versionName \in {Bare26} \cup SavedAlts(ManifestName("c4"), Bare26)

\* a call of the kind for version w of c4 is in the sequence of calls
Applies(calls, kind, w) ==
    \E i \in 1..Len(calls) :
        calls[i].action = kind /\ calls[i].comp_id = "c4" /\ calls[i].version = w

\* the manifests are loaded and the curated list held the fallback, not version 26
OnFallback ==
    /\ pc \in {"perform", "done"} /\ next_entry > Len(entries)
    /\ HeldAtStart(Bare25) /\ ~HeldAtStart(Bare26)

\* while the Knowledgebase lacks version 26, a run makes no call for 26 nor for 25
WaitsForCanonical ==
    (OnFallback /\ ~HasCanonical(kb)) =>
        \A i \in 1..Len(trace) : trace[i].action \notin {"add", "remove"}

\* once the Knowledgebase has version 26, the run that is not a dry run adds 26
\* and removes 25
SwitchesToCanonical ==
    (OnFallback /\ pc = "done" /\ ~dryrun /\ HasCanonical(kb)) =>
        /\ Applies(trace, "add", Bare26)
        /\ Applies(trace, "remove", Bare25)

\* the run before was not a dry run, completed, and switched from 25 to 26
AfterSwitch ==
    /\ run > 1
    /\ ~prev.dryrun /\ prev.outcome = "ok"
    /\ Applies(prev.trace, "add", Bare26)
    /\ Applies(prev.trace, "remove", Bare25)

\* C38: the life of a fallback over successive runs. While the Knowledgebase lacks
\* the canonical version and its alternates and the curated list holds the
\* fallback, a run makes no version call; in a run that is not a dry run and finds
\* the canonical version in the Knowledgebase, perform() adds the canonical
\* version and removes the fallback; the run after that makes no call.
C38_FallbackLifeCycle ==
    /\ WaitsForCanonical
    /\ SwitchesToCanonical
    /\ (AfterSwitch /\ pc = "done") => trace = <<>>



\* ------------------------------------------------------------------ C39
\* C39: loading the manifests returns for every tree of manifest files, also when
\* the include-projects of two projects name each other: the nested calls of
\* add_manifests never go deeper than the interpreter allows, so no walk ends in
\* a RecursionError.
C39_LoadingTerminates == outcome # "RecursionError"



\* ------------------------------------------------------------------ PruneSourceDirs
\* Directories are paths under the source root: tuples of names.
MaxPrune == 3

\* the number of directories above the source root
RootDepth == 1

\* pathlib's resolve() of a path under the source root: "." is dropped, ".." goes
\* one directory up (no symbolic links on the disk)
RECURSIVE Resolve(_, _)
Resolve(parts, acc) ==
    IF parts = <<>> THEN acc
    ELSE IF Head(parts) = "." THEN Resolve(Tail(parts), acc)
    ELSE IF Head(parts) = ".."
    THEN Resolve(Tail(parts), IF acc = <<>> THEN acc ELSE SubSeq(acc, 1, Len(acc) - 1))
    ELSE Resolve(Tail(parts), Append(acc, Head(parts)))

\* len(path.parents) of a resolved path
Parents(path) == RootDepth + Len(path)

\* sorted(..., key=lambda x: 0 - len(x[1].parents)): item goes behind the items
\* that are as deep or deeper, the sort being stable
RECURSIVE InsertByDepth(_, _)
InsertByDepth(item, sorted) ==
    IF sorted = <<>> THEN <<item>>
    ELSE IF Parents(Head(sorted).src_path) >= Parents(item.src_path)
    THEN <<Head(sorted)>> \o InsertByDepth(item, Tail(sorted))
    ELSE <<item>> \o sorted

RECURSIVE SortedByDepth(_, _)
SortedByDepth(d, n) ==
    IF n = 0 THEN <<>>
    ELSE InsertByDepth([component |-> d.keys[n], src_path |-> d.val[d.keys[n]]],
                       SortedByDepth(d, n - 1))

\* shutil.rmtree(path): the directory goes with everything below it
Rmtree(dirs, path) == {d \in dirs : ~StartsWith(d, path)}

\* the directories the disk may hold, and the disks: a directory is there only
\* with the directories above it
PruneDirs == {<<"a">>, <<"a", "b">>, <<"a", "b", "c">>, <<"d">>}
PruneDisks ==
    {D \in SUBSET PruneDirs :
        \A d \in D : Len(d) > 1 => SubSeq(d, 1, Len(d) - 1) \in D}

\* the component entries add_component is called with, each with the root
\* directory of its manifest (self.mani_rootdir) at the time of the call
PrunePlaces ==
    {[mani_rootdir |-> <<>>, src_path |-> <<"a">>],
     [mani_rootdir |-> <<>>, src_path |-> <<"a", "b">>],
     [mani_rootdir |-> <<"a">>, src_path |-> <<".", "b">>],
     [mani_rootdir |-> <<"a">>, src_path |-> <<"b", "c">>],
     [mani_rootdir |-> <<"a">>, src_path |-> <<"..", "d">>]}

PruneEntries ==
    {[comp_name |-> ManifestName(c), mani_rootdir |-> pl.mani_rootdir,
      comp_data |-> [versions |-> <<V1>>, src_path |-> pl.src_path]] :
        c \in {"c1", "c2", "c4"}, pl \in PrunePlaces}
    \cup {[comp_name |-> ManifestName(c), mani_rootdir |-> <<>>,
           comp_data |-> [versions |-> <<V1>>]] : c \in {"c1"}}

PruneInputs == UNION {[1..n -> PruneEntries] : n \in 0..MaxPrune}

\* the fields of UpdateComponents and the remote service: a prune has none of them
updatevars == <<bom, kb, aliasfile, files, args, returned, run, bd_comp_id_aliases,
                bd_comp_version_fallbacks, bd_alt_canonical_versions, bom_components,
                bom_comp_map, manifest, actions_taken, requests, lookups, bom_at_start,
                prev>>

\* --operation prune: PruneSourceDirs is constructed, the manifests are about to
\* be loaded
InitPrune ==
    /\ entries \in PruneInputs
    /\ disk \in PruneDisks
    /\ disk_at_start = disk
    /\ dryrun \in BOOLEAN
    /\ src_dirs = EmptyDict
    /\ pc = "manifests"
    /\ outcome = ""
    /\ next_entry = 1
    /\ todo = <<>>
    /\ trace = <<>>
    /\ bom = {} /\ kb = {} /\ aliasfile = <<>> /\ files = NoFiles /\ args = NoArgs
    /\ returned = <<>> /\ run = 1
    /\ bd_comp_id_aliases = [k \in {} |-> ""]
    /\ bd_comp_version_fallbacks = [k \in {} |-> <<>>]
    /\ bd_alt_canonical_versions = [k \in {} |-> {}]
    /\ bom_components = <<>>
    /\ bom_comp_map = EmptyDict
    /\ manifest = EmptyDict
    /\ actions_taken = 0
    /\ requests = <<>>
    /\ lookups = <<>>
    /\ bom_at_start = {}
    /\ prev = NoPrev

\* PruneSourceDirs.add_component(comp_name, comp_data)
PruneAddComponent ==
    /\ pc = "manifests"
    /\ next_entry <= Len(entries)
    /\ LET e == entries[next_entry]
       IN  src_dirs' =
              (IF "src_path" \in DOMAIN e.comp_data
               THEN DictSet(src_dirs, e.comp_name,
                            Resolve(e.mani_rootdir \o e.comp_data.src_path, <<>>))
               ELSE src_dirs)
    /\ next_entry' = next_entry + 1
    /\ UNCHANGED <<updatevars, entries, dryrun, pc, outcome, todo, trace, disk, disk_at_start>>

\* PruneSourceDirs.perform() starts: the directories are sorted
PruneStart ==
    /\ pc = "manifests"
    /\ next_entry > Len(entries)
    /\ todo' = SortedByDepth(src_dirs, Len(src_dirs.keys))
    /\ pc' = "perform"
    /\ UNCHANGED <<updatevars, entries, dryrun, outcome, next_entry, trace, src_dirs, disk,
                   disk_at_start>>

\* one round of the loop of PruneSourceDirs.perform()
PruneDirectory ==
    /\ pc = "perform" /\ todo # <<>>
    /\ LET src_path == Head(todo).src_path
       IN  IF src_path \notin disk
           THEN Exit("exit3") /\ UNCHANGED <<todo, trace, disk>>
           ELSE /\ trace' = Append(trace, [action |-> "prune",
                                           component |-> Head(todo).component,
                                           src_path |-> src_path])
                /\ disk' = (IF dryrun THEN disk ELSE Rmtree(disk, src_path))
                /\ todo' = Tail(todo)
                /\ UNCHANGED <<pc, outcome>>
    /\ UNCHANGED <<updatevars, entries, dryrun, next_entry, src_dirs, disk_at_start>>

\* PruneSourceDirs.perform() returns
PruneDone ==
    /\ pc = "perform" /\ todo = <<>>
    /\ pc' = "done"
    /\ outcome' = "ok"
    /\ UNCHANGED <<updatevars, entries, dryrun, next_entry, todo, trace, src_dirs, disk,
                   disk_at_start>>

NextPrune == PruneAddComponent \/ PruneStart \/ PruneDirectory \/ PruneDone

SpecPrune == InitPrune /\ [][NextPrune]_vars

\* ------------------------------------------------------------------ C40
\* every directory recorded for a component existed when the program started
AllRecordedExisted == \A c \in DOMAIN src_dirs.val : src_dirs.val[c] \in disk_at_start

\* C40: in a prune that is not a dry run and in which every recorded directory
\* exists when pruning starts, every directory still exists when its turn comes:
\* the exit "source path does not exist" is not taken, also when a recorded
\* directory lies in another one or two components record the same directory.
C40_NoMissingDirectory ==
    (pc \in {"perform", "done", "fatal"} /\ ~dryrun /\ AllRecordedExisted) =>
        outcome # "exit3"

====
